---------------------------- MODULE Spec2Model ----------------------------
(***************************************************************************)
(* The in-memory TTL/LRU cache of ergo_price_mcp (cache/memory_cache.py),  *)
(* the cache-aside decorators built on it (cache/decorators.py) and the    *)
(* cached tool functions (tools/price_tools.py, tools/asset_tools.py).     *)
(*                                                                         *)
(* Keys are sequences of atoms (strings); ":" is an atom of its own, so    *)
(* that "prefix:key" composition and prefix matching are computed, not     *)
(* assumed.  Values are tagged records: a Python str, None, or the         *)
(* {"error": ..., "success": False} dict the tool functions return.        *)
(* datetime.now() and time.time() read one wall clock, `now`, that only   *)
(* moves forward; two reads may return the same instant.                   *)
(***************************************************************************)
EXTENDS Integers, Sequences, FiniteSets, TLC

VARIABLES
    cache,          \* MemoryCache._cache: full key -> CacheEntry
    access_order,   \* MemoryCache._access_order, a dict in insertion order: <<[key, ts], ...>>
    stats,          \* MemoryCache._stats (CacheStats counters)
    now,            \* the wall clock
    ret,            \* the last completed call: what was called and what it returned
    nops,           \* number of calls made so far (bounds the exploration)
    calls,          \* per wrapped operation and argument: times the underlying body ran
    pc,             \* per task: where its async_wrapper or _make_request call stands
    pending,        \* per task: the frame of the call suspended at an await
    stores,         \* the MemoryCache objects created so far: _cleanup_task, _stop_cleanup
    rtasks,         \* the asyncio tasks created for _cleanup_loop, in order of creation
    cache_instance, \* the global _cache_instance: an index into stores, 0 for None
    managers,       \* the CacheManager objects created so far: the store each refers to
    cache_manager   \* the global _cache_manager: an index into managers, 0 for None

\* cache, access_order and stats are the contents of stores[1], the store that is the
\* global instance from the start
lifecycle == <<stores, rtasks, cache_instance, managers, cache_manager>>

vars == <<cache, access_order, stats, now, ret, nops, calls, pc, pending,
          stores, rtasks, cache_instance, managers, cache_manager>>

----------------------------------------------------------------------------
(* Bounds of the exploration *)

MaxTime == 2
MaxOps == 3
MaxSize == 2
MaxLruOps == 4
MaxWrapOps == 3
CachedTtl == 1

(* Program constants *)

NullJsonLen == 4
ScalarSize == 8

----------------------------------------------------------------------------
(* Values *)

None == [tag |-> "none", text |-> ""]
Str(s) == [tag |-> "str", text |-> s]
ErrorResult == [tag |-> "error", text |-> "Failed"]

NoTime == -1

\* CacheEntry._estimate_size: str -> UTF-8 length; None falls to json.dumps -> "null";
\* a dict -> sum over items of size(key) + size(value), with False sized as an int;
\* anything else -> the length of json.dumps(value, default=str), a quoted string.
estimate_size(value) ==
    CASE value.tag = "str" -> Len(value.text)
      [] value.tag = "none" -> NullJsonLen
      [] value.tag = "error" -> (Len("error") + Len(value.text)) + (Len("success") + ScalarSize)
      [] OTHER -> Len(value.text) + Len("\"\"")

\* (mutant) the deadline itself already counts as expired
is_expired_at_deadline(entry, t) == t >= entry.expires_at

\* CacheEntry.is_expired at clock reading t
is_expired(entry, t) == t > entry.expires_at

\* CacheEntry(value, created_at, expires_at) with __post_init__
CacheEntry(value, created_at, expires_at) ==
    [value |-> value, created_at |-> created_at, expires_at |-> expires_at,
     access_count |-> 0, last_accessed |-> NoTime, size_bytes |-> estimate_size(value)]

\* (mutant) the access is counted before the expiry test
access_counts_expired(entry, t) ==
    IF is_expired(entry, t)
    THEN [raised |-> TRUE, entry |-> [entry EXCEPT !.access_count = @ + 1], value |-> None]
    ELSE [raised |-> FALSE,
          entry |-> [entry EXCEPT !.access_count = @ + 1, !.last_accessed = t],
          value |-> entry.value]

\* CacheEntry.access at clock reading t: raises ValueError on an expired entry,
\* otherwise counts the access and returns the value
access(entry, t) ==
    IF is_expired(entry, t)
    THEN [raised |-> TRUE, entry |-> entry, value |-> None]
    ELSE [raised |-> FALSE,
          entry |-> [entry EXCEPT !.access_count = @ + 1, !.last_accessed = t],
          value |-> entry.value]

----------------------------------------------------------------------------
(* Keys *)

NoPrefix == <<>>

\* (mutant) the prefix is dropped
generate_key_without_prefix(key, prefix) == key

\* MemoryCache._generate_key
generate_key(key, prefix) ==
    IF prefix # NoPrefix THEN prefix \o <<":">> \o key ELSE key

\* str.startswith
StartsWith(s, p) == Len(s) >= Len(p) /\ SubSeq(s, 1, Len(p)) = p

----------------------------------------------------------------------------
(* Dicts *)

DictPut(d, k, v) == [x \in DOMAIN d \cup {k} |-> IF x = k THEN v ELSE d[x]]
DictDel(d, ks) == [x \in DOMAIN d \ ks |-> d[x]]
EmptyDict == [x \in {} |-> None]

\* _access_order as an insertion-ordered dict
OrderKeys(ao) == {ao[i].key : i \in 1..Len(ao)}
OrderIndex(ao, k) == CHOOSE i \in 1..Len(ao) : ao[i].key = k
OrderGet(ao, k) == ao[OrderIndex(ao, k)].ts
OrderPut(ao, k, t) ==
    IF k \in OrderKeys(ao)
    THEN [ao EXCEPT ![OrderIndex(ao, k)].ts = t]
    ELSE Append(ao, [key |-> k, ts |-> t])
\* (mutant) the keys stay in the order structure
order_pop_skipped(ao, ks) == ao

OrderPop(ao, ks) == SelectSeq(ao, LAMBDA e : e.key \notin ks)


----------------------------------------------------------------------------
(* MemoryCache: the operations as functions of the store, run under _lock *)

Store == [cache |-> cache, access_order |-> access_order, stats |-> stats]

NoTtl == -1
DefaultTtlMetadata == 2

\* (mutant) the expired entry is dropped without being counted as an expiration
get_expired_uncounted(S, full_key) ==
    LET entry == S.cache[full_key]
        c == DictDel(S.cache, {full_key})
    IN [store |-> [cache |-> c,
                   access_order |-> OrderPop(S.access_order, {full_key}),
                   stats |-> [S.stats EXCEPT !.misses = @ + 1,
                                             !.entries = Cardinality(DOMAIN c),
                                             !.total_size_bytes = @ - entry.size_bytes]],
        val |-> None, raised |-> FALSE, branch |-> "expired"]

\* MemoryCache.get, the branch taken when is_expired() finds the entry expired
get_expired_on_lookup(S, full_key) ==
    LET entry == S.cache[full_key]
        c == DictDel(S.cache, {full_key})
    IN [store |-> [cache |-> c,
                   access_order |-> OrderPop(S.access_order, {full_key}),
                   stats |-> [S.stats EXCEPT !.misses = @ + 1,
                                             !.expirations = @ + 1,
                                             !.entries = Cardinality(DOMAIN c),
                                             !.total_size_bytes = @ - entry.size_bytes]],
        val |-> None, raised |-> FALSE, branch |-> "expired"]

\* (mutant) no except clause: the ValueError of access() leaves get
get_access_error_propagates(S, full_key) ==
    [store |-> S, val |-> None, raised |-> TRUE, branch |-> "expired_on_access"]

\* MemoryCache.get, the `except ValueError` branch: entry.access() found the entry expired
get_expired_on_access(S, full_key) ==
    LET entry == S.cache[full_key]
        c == DictDel(S.cache, {full_key})
    IN [store |-> [cache |-> c,
                   access_order |-> OrderPop(S.access_order, {full_key}),
                   stats |-> [S.stats EXCEPT !.misses = @ + 1,
                                             !.expirations = @ + 1,
                                             !.entries = Cardinality(DOMAIN c),
                                             !.total_size_bytes = @ - entry.size_bytes]],
        val |-> None, raised |-> FALSE, branch |-> "expired_on_access"]

\* (mutant) a hit that is not counted
get_hit_uncounted(S, full_key, accessed, t) ==
    [store |-> [cache |-> DictPut(S.cache, full_key, accessed.entry),
                access_order |-> OrderPut(S.access_order, full_key, t),
                stats |-> S.stats],
     val |-> accessed.value, raised |-> FALSE, branch |-> "hit"]

\* (mutant) a read renews the entry's time to live
get_hit_extends_ttl(S, full_key, accessed, t) ==
    [store |-> [cache |-> DictPut(S.cache, full_key,
                                  [accessed.entry EXCEPT
                                     !.expires_at = t + (@ - accessed.entry.created_at)]),
                access_order |-> OrderPut(S.access_order, full_key, t),
                stats |-> [S.stats EXCEPT !.hits = @ + 1]],
     val |-> accessed.value, raised |-> FALSE, branch |-> "hit"]

\* MemoryCache.get, the hit: entry.access() returned
get_hit(S, full_key, accessed, t) ==
    [store |-> [cache |-> DictPut(S.cache, full_key, accessed.entry),
                access_order |-> OrderPut(S.access_order, full_key, t),
                stats |-> [S.stats EXCEPT !.hits = @ + 1]],
     val |-> accessed.value, raised |-> FALSE, branch |-> "hit"]

\* (mutant) max instead of min: the most recently used key
mru_key(ao) ==
    LET i == CHOOSE i \in 1..Len(ao) : \A j \in 1..Len(ao) : ao[i].ts >= ao[j].ts
    IN ao[i].key

\* min(self._access_order.keys(), key=...): the first key, in dict order, of least timestamp
lru_key(ao) ==
    LET i == CHOOSE i \in 1..Len(ao) :
                 /\ \A j \in 1..Len(ao) : ao[i].ts <= ao[j].ts
                 /\ \A j \in 1..(i - 1) : ao[j].ts > ao[i].ts
    IN ao[i].key

\* (mutant) the eviction is counted as an expiration as well
evict_lru_double_counted(S) ==
    IF S.access_order = <<>> THEN [store |-> S, raised |-> FALSE]
    ELSE LET k == lru_key(S.access_order)
         IN IF k \notin DOMAIN S.cache THEN [store |-> S, raised |-> TRUE]
            ELSE [store |-> [cache |-> DictDel(S.cache, {k}),
                             access_order |-> OrderPop(S.access_order, {k}),
                             stats |-> [S.stats EXCEPT
                                          !.total_size_bytes = @ - S.cache[k].size_bytes,
                                          !.evictions = @ + 1,
                                          !.expirations = @ + 1]],
                  raised |-> FALSE]

\* MemoryCache._evict_lru; self._cache.pop(lru_key) raises KeyError for a key the map lacks
evict_lru(S) ==
    IF S.access_order = <<>> THEN [store |-> S, raised |-> FALSE]
    ELSE LET k == lru_key(S.access_order)
         IN IF k \notin DOMAIN S.cache THEN [store |-> S, raised |-> TRUE]
            ELSE [store |-> [cache |-> DictDel(S.cache, {k}),
                             access_order |-> OrderPop(S.access_order, {k}),
                             stats |-> [S.stats EXCEPT
                                          !.total_size_bytes = @ - S.cache[k].size_bytes,
                                          !.evictions = @ + 1]],
                  raised |-> FALSE]

\* (mutant) the capacity test forgets that the key may be stored already
needs_eviction_on_overwrite(S, full_key, max_size) ==
    Cardinality(DOMAIN S.cache) >= max_size

\* (mutant) > for >=: room is made one insertion too late
needs_eviction_late(S, full_key, max_size) ==
    Cardinality(DOMAIN S.cache) > max_size /\ full_key \notin DOMAIN S.cache

\* the capacity test of set
needs_eviction(S, full_key, max_size) ==
    Cardinality(DOMAIN S.cache) >= max_size /\ full_key \notin DOMAIN S.cache

\* MemoryCache.set, with the clock reading t
cache_set_in(S, key, value, ttl, prefix, t, max_size) ==
    LET ttl1 == IF ttl = NoTtl THEN DefaultTtlMetadata ELSE ttl
        full_key == generate_key(key, prefix)
        entry == CacheEntry(value, t, t + ttl1)
        ev == IF needs_eviction(S, full_key, max_size) THEN evict_lru(S)
              ELSE [store |-> S, raised |-> FALSE]
        S1 == ev.store
        c == DictPut(S1.cache, full_key, entry)
    IN IF ev.raised THEN [store |-> S, raised |-> TRUE]
       ELSE [store |-> [cache |-> c,
                        access_order |-> OrderPut(S1.access_order, full_key, t),
                        stats |-> [S1.stats EXCEPT !.entries = Cardinality(DOMAIN c),
                                                   !.total_size_bytes = @ + entry.size_bytes]],
             raised |-> FALSE]

\* MemoryCache.set on the store of the model, constructed with max_size=MaxSize
cache_set(S, key, value, ttl, prefix, t) ==
    cache_set_in(S, key, value, ttl, prefix, t, MaxSize)

\* MemoryCache(max_size=None)
NoMaxSize == 0

\* settings.cache.max_size, 1000 unless configured
SettingsMaxSize == 2

\* MemoryCache.__init__: self._max_size = max_size or settings.cache.max_size
init_max_size(max_size) == IF max_size = NoMaxSize THEN SettingsMaxSize ELSE max_size

\* MemoryCache.get; t1 is the clock read by is_expired(), t2 the clock read by access().
\* Returns the store, the value returned (None for a miss) and whether get raised.
cache_get(S, key, prefix, t1, t2) ==
    LET full_key == generate_key(key, prefix)
    IN IF full_key \notin DOMAIN S.cache
       THEN [store |-> [S EXCEPT !.stats.misses = @ + 1], val |-> None, raised |-> FALSE,
             branch |-> "miss"]
       ELSE LET entry == S.cache[full_key]
                accessed == access(entry, t2)
            IN IF is_expired(entry, t1)
               THEN get_expired_on_lookup(S, full_key)
               ELSE IF accessed.raised
                    THEN get_expired_on_access(S, full_key)
                    ELSE get_hit(S, full_key, accessed, t2)

\* whether get reads the clock a second time (it reaches entry.access())
get_reaches_access(S, key, prefix, t1) ==
    LET full_key == generate_key(key, prefix)
    IN full_key \in DOMAIN S.cache /\ ~is_expired(S.cache[full_key], t1)

\* (mutant) the running size is not decremented
cache_delete_keeps_size(S, key, prefix) ==
    LET full_key == generate_key(key, prefix)
        c == DictDel(S.cache, {full_key})
    IN IF full_key \in DOMAIN S.cache
       THEN [store |-> [cache |-> c,
                        access_order |-> OrderPop(S.access_order, {full_key}),
                        stats |-> [S.stats EXCEPT !.entries = Cardinality(DOMAIN c)]],
             flag |-> TRUE]
       ELSE [store |-> S, flag |-> FALSE]

\* MemoryCache.delete
cache_delete(S, key, prefix) ==
    LET full_key == generate_key(key, prefix)
    IN IF full_key \in DOMAIN S.cache
       THEN LET entry == S.cache[full_key]
                c == DictDel(S.cache, {full_key})
            IN [store |-> [cache |-> c,
                           access_order |-> OrderPop(S.access_order, {full_key}),
                           stats |-> [S.stats EXCEPT !.entries = Cardinality(DOMAIN c),
                                                     !.total_size_bytes = @ - entry.size_bytes]],
                flag |-> TRUE]
       ELSE [store |-> S, flag |-> FALSE]

\* (mutant) a successful exists counts as a use of the entry
cache_exists_touches_lru(S, key, prefix, t) ==
    LET full_key == generate_key(key, prefix)
    IN IF full_key \notin DOMAIN S.cache
       THEN [store |-> S, flag |-> FALSE]
       ELSE LET entry == S.cache[full_key]
                c == DictDel(S.cache, {full_key})
            IN IF is_expired(entry, t)
               THEN [store |-> [cache |-> c,
                                access_order |-> OrderPop(S.access_order, {full_key}),
                                stats |-> [S.stats EXCEPT !.expirations = @ + 1,
                                                          !.entries = Cardinality(DOMAIN c),
                                                          !.total_size_bytes = @ - entry.size_bytes]],
                     flag |-> FALSE]
               ELSE [store |-> [S EXCEPT !.access_order = OrderPut(@, full_key, t)],
                     flag |-> TRUE]

\* MemoryCache.exists
cache_exists(S, key, prefix, t) ==
    LET full_key == generate_key(key, prefix)
    IN IF full_key \notin DOMAIN S.cache
       THEN [store |-> S, flag |-> FALSE]
       ELSE LET entry == S.cache[full_key]
                c == DictDel(S.cache, {full_key})
            IN IF is_expired(entry, t)
               THEN [store |-> [cache |-> c,
                                access_order |-> OrderPop(S.access_order, {full_key}),
                                stats |-> [S.stats EXCEPT !.expirations = @ + 1,
                                                          !.entries = Cardinality(DOMAIN c),
                                                          !.total_size_bytes = @ - entry.size_bytes]],
                     flag |-> FALSE]
               ELSE [store |-> S, flag |-> TRUE]

RECURSIVE SumSizes(_, _)
SumSizes(c, ks) ==
    IF ks = {} THEN 0
    ELSE LET k == CHOOSE k \in ks : TRUE IN c[k].size_bytes + SumSizes(c, ks \ {k})

\* (mutant) clear() resets the statistics altogether
cache_clear_resets_stats(S, prefix, has_prefix) ==
    IF ~has_prefix
    THEN [store |-> [cache |-> EmptyDict, access_order |-> <<>>,
                     stats |-> [S.stats EXCEPT !.entries = 0, !.total_size_bytes = 0,
                                               !.hits = 0, !.misses = 0,
                                               !.evictions = 0, !.expirations = 0]],
          count |-> Cardinality(DOMAIN S.cache)]
    ELSE LET prefix_key == prefix \o <<":">>
             keys_to_delete == {k \in DOMAIN S.cache : StartsWith(k, prefix_key)}
             c == DictDel(S.cache, keys_to_delete)
         IN [store |-> [cache |-> c,
                        access_order |-> OrderPop(S.access_order, keys_to_delete),
                        stats |-> [S.stats EXCEPT
                                     !.total_size_bytes = @ - SumSizes(S.cache, keys_to_delete),
                                     !.entries = Cardinality(DOMAIN c)]],
               count |-> Cardinality(keys_to_delete)]

\* MemoryCache.clear
cache_clear(S, prefix, has_prefix) ==
    IF ~has_prefix
    THEN [store |-> [cache |-> EmptyDict, access_order |-> <<>>,
                     stats |-> [S.stats EXCEPT !.entries = 0, !.total_size_bytes = 0]],
          count |-> Cardinality(DOMAIN S.cache)]
    ELSE LET prefix_key == prefix \o <<":">>
             keys_to_delete == {k \in DOMAIN S.cache : StartsWith(k, prefix_key)}
             c == DictDel(S.cache, keys_to_delete)
         IN [store |-> [cache |-> c,
                        access_order |-> OrderPop(S.access_order, keys_to_delete),
                        stats |-> [S.stats EXCEPT
                                     !.total_size_bytes = @ - SumSizes(S.cache, keys_to_delete),
                                     !.entries = Cardinality(DOMAIN c)]],
               count |-> Cardinality(keys_to_delete)]

\* (mutant) the sweep does not count what it removes
cleanup_expired_uncounted(S, t) ==
    LET expired_keys == {k \in DOMAIN S.cache : is_expired(S.cache[k], t)}
        c == DictDel(S.cache, expired_keys)
    IN [store |-> [cache |-> c,
                   access_order |-> OrderPop(S.access_order, expired_keys),
                   stats |-> [S.stats EXCEPT
                                !.total_size_bytes = @ - SumSizes(S.cache, expired_keys),
                                !.entries = Cardinality(DOMAIN c)]],
        count |-> Cardinality(expired_keys)]

\* MemoryCache.cleanup_expired
cleanup_expired(S, t) ==
    LET expired_keys == {k \in DOMAIN S.cache : is_expired(S.cache[k], t)}
        c == DictDel(S.cache, expired_keys)
    IN [store |-> [cache |-> c,
                   access_order |-> OrderPop(S.access_order, expired_keys),
                   stats |-> [S.stats EXCEPT
                                !.total_size_bytes = @ - SumSizes(S.cache, expired_keys),
                                !.expirations = @ + Cardinality(expired_keys),
                                !.entries = Cardinality(DOMAIN c)]],
        count |-> Cardinality(expired_keys)]

\* a float quotient num / den, kept exact
Quot(num, den) == [num |-> num, den |-> den]
ZeroFloat == Quot(0, 1)

\* CacheEntry.time_to_expire at clock reading t, in seconds
time_to_expire(entry, t) == IF t >= entry.expires_at THEN 0 ELSE entry.expires_at - t

RECURSIVE SumTimeToExpire(_, _, _)
SumTimeToExpire(c, ks, t) ==
    IF ks = {} THEN 0
    ELSE LET k == CHOOSE k \in ks : TRUE
         IN time_to_expire(c[k], t) + SumTimeToExpire(c, ks \ {k}, t)

\* (mutant) the statistics are read as they stand, entries not recounted
get_stats_as_stored(S, t) == [store |-> S, stats |-> S.stats]

\* (mutant) expired entries are pruned before the statistics are computed
get_stats_pruning(S, t) ==
    LET S1 == cleanup_expired(S, t).store
        avg_ttl == IF DOMAIN S1.cache # {}
                   THEN Quot(SumTimeToExpire(S1.cache, DOMAIN S1.cache, t),
                             Cardinality(DOMAIN S1.cache))
                   ELSE ZeroFloat
        st == [S1.stats EXCEPT !.entries = Cardinality(DOMAIN S1.cache),
                               !.average_ttl = avg_ttl]
    IN [store |-> [S1 EXCEPT !.stats = st], stats |-> st]

\* MemoryCache.get_stats: recomputes entries and average_ttl in _stats and returns it
get_stats(S, t) ==
    LET avg_ttl == IF DOMAIN S.cache # {}
                   THEN Quot(SumTimeToExpire(S.cache, DOMAIN S.cache, t),
                             Cardinality(DOMAIN S.cache))
                   ELSE ZeroFloat
        st == [S.stats EXCEPT !.entries = Cardinality(DOMAIN S.cache),
                              !.average_ttl = avg_ttl]
    IN [store |-> [S EXCEPT !.stats = st], stats |-> st]

\* CacheStats.hit_rate
hit_rate(st) ==
    LET total_requests == st.hits + st.misses
    IN IF total_requests = 0 THEN ZeroFloat ELSE Quot(st.hits * 100, total_requests)

\* MemoryCache.get_keys
get_keys(S, prefix, has_prefix) ==
    IF ~has_prefix THEN DOMAIN S.cache
    ELSE LET prefix_key == prefix \o <<":">>
         IN {k \in DOMAIN S.cache : StartsWith(k, prefix_key)}

\* CacheManager.clear_by_type: self.cache.clear(prefix=data_type)
clear_by_type(S, data_type) == cache_clear(S, data_type, TRUE)

\* the prefixes of the cache manager, character by character
PricePrefix == <<"p", "r", "i", "c", "e">>
MetadataPrefix == <<"m", "e", "t", "a", "d", "a", "t", "a">>
HistoryPrefix == <<"h", "i", "s", "t", "o", "r", "y">>

\* Python's `sub in s` on strings
Contains(s, sub) ==
    \E i \in 0..(Len(s) - Len(sub)) : SubSeq(s, i + 1, i + Len(sub)) = sub

\* key.split(":", 1)[1]
SplitAfterColon(key) ==
    LET i == CHOOSE j \in 1..Len(key) :
                 key[j] = ":" /\ \A l \in 1..(j - 1) : key[l] # ":"
    IN SubSeq(key, i + 1, Len(key))

\* self.cache.delete(key, prefix=prefix) for each key of keys
RECURSIVE delete_each(_, _, _)
delete_each(S, keys, prefix) ==
    IF keys = {} THEN S
    ELSE LET key == CHOOSE k \in keys : TRUE
         IN delete_each(cache_delete(S, key, prefix).store, keys \ {key}, prefix)

\* (mutant) only the history entry stored under the identifier itself is removed
invalidate_token_data_exact(S, token_id) ==
    LET s1 == cache_delete(S, token_id, PricePrefix).store
        s2 == cache_delete(s1, token_id, MetadataPrefix).store
    IN [store |-> cache_delete(s2, token_id, HistoryPrefix).store,
        history_keys |-> get_keys(s2, HistoryPrefix, TRUE)]

\* CacheManager.invalidate_token_data
invalidate_token_data(S, token_id) ==
    LET s1 == cache_delete(S, token_id, PricePrefix).store
        s2 == cache_delete(s1, token_id, MetadataPrefix).store
        history_keys == get_keys(s2, HistoryPrefix, TRUE)
        matching == {key \in history_keys : Contains(key, token_id)}
    IN [store |-> delete_each(s2, {SplitAfterColon(key) : key \in matching}, HistoryPrefix),
        history_keys |-> history_keys]

----------------------------------------------------------------------------
(* MemoryCache: the reaper.  _cleanup_loop runs as an asyncio task: it runs from one
   await to the next without interruption, and a cancel() reaches it at the await it is
   suspended in (or before its first step).  CancelledError is a BaseException, so the
   loop's `except Exception` does not catch it. *)

CleanupInterval == 2
MaxSweepErrors == 1

\* asyncio.create_task(self._cleanup_loop()) for store s
NewTask(s) == [store |-> s, pc |-> "created", cancel |-> FALSE, left |-> 0, errors |-> 0]

\* Task.done()
Done(task) == task.pc \in {"cancelled", "finished"}

\* (mutant) a task is created on every start
start_always_creates(ss, ts, s) ==
    [stores |-> [ss EXCEPT ![s] = [cleanup_task |-> Len(ts) + 1, stop_cleanup |-> FALSE]],
     rtasks |-> Append(ts, NewTask(s)), created |-> TRUE]

\* MemoryCache.start_cleanup_task
start_cleanup_task(ss, ts, s) ==
    IF ss[s].cleanup_task = 0 \/ Done(ts[ss[s].cleanup_task])
    THEN [stores |-> [ss EXCEPT ![s] = [cleanup_task |-> Len(ts) + 1,
                                        stop_cleanup |-> FALSE]],
          rtasks |-> Append(ts, NewTask(s)), created |-> TRUE]
    ELSE [stores |-> ss, rtasks |-> ts, created |-> FALSE]

\* (mutant) the task is cancelled but not awaited
stop_without_await(ss, ts, s) ==
    LET r == ss[s].cleanup_task
        running == r # 0 /\ ~Done(ts[r])
    IN [stores |-> [ss EXCEPT ![s].stop_cleanup = TRUE],
        rtasks |-> IF running THEN [ts EXCEPT ![r].cancel = TRUE] ELSE ts,
        awaits |-> 0]

\* MemoryCache.stop_cleanup_task up to `await self._cleanup_task`: awaits is the task it
\* then waits for, 0 when it returns at once
stop_cleanup_task(ss, ts, s) ==
    LET r == ss[s].cleanup_task
        running == r # 0 /\ ~Done(ts[r])
    IN [stores |-> [ss EXCEPT ![s].stop_cleanup = TRUE],
        rtasks |-> IF running THEN [ts EXCEPT ![r].cancel = TRUE] ELSE ts,
        awaits |-> IF running THEN r ELSE 0]

\* (mutant) an error in the sweep ends the task
on_sweep_error_fatal(task) == [task EXCEPT !.pc = "finished", !.errors = @ + 1]

\* _cleanup_loop, `except Exception`: log, then await asyncio.sleep(5)
on_sweep_error(task) == [task EXCEPT !.pc = "backoff", !.errors = @ + 1]

\* _cleanup_loop from the `while` test to the next await; outcome is that of the sweep
loop_head(task, stop_set, outcome) ==
    IF stop_set THEN [task |-> [task EXCEPT !.pc = "finished"], sweep |-> "none"]
    ELSE IF outcome = "error" THEN [task |-> on_sweep_error(task), sweep |-> "error"]
    ELSE [task |-> [task EXCEPT !.pc = "sleeping", !.left = CleanupInterval],
          sweep |-> "ok"]

\* one run of the task, from where it is suspended to its next await or its end
cleanup_loop(task, stop_set, outcome) ==
    IF task.cancel THEN [task |-> [task EXCEPT !.pc = "cancelled"], sweep |-> "none"]
    ELSE IF task.pc = "sleeping" /\ task.left > 1 /\ ~stop_set
         THEN [task |-> [task EXCEPT !.left = @ - 1], sweep |-> "none"]
         ELSE loop_head(task, stop_set, outcome)

\* (mutant) the loop wakes up but does not sweep
reaper_sweep_skipped(S, t) == [store |-> S, count |-> 0]

\* _cleanup_loop: expired_count = self.cleanup_expired()
reaper_sweep(S, t) == cleanup_expired(S, t)

----------------------------------------------------------------------------
(* decorators.py: key derivation and the cache-aside wrappers *)

\* named arguments in the order json.dumps(sort_keys=True) writes them
KwNames == <<"time_point", "token_id">>
KwRank(name) == CHOOSE i \in 1..Len(KwNames) : KwNames[i] = name

\* (mutant) the named arguments are written in the order of the call
kwargs_in_call_order(kwargs) == kwargs

SortedKwargs(kwargs) == SortSeq(kwargs, LAMBDA x, y : KwRank(x.name) < KwRank(y.name))

RECURSIVE JsonList(_)
JsonList(args) ==
    IF args = <<>> THEN ""
    ELSE Head(args) \o (IF Len(args) > 1 THEN "," ELSE "") \o JsonList(Tail(args))

RECURSIVE JsonDict(_)
JsonDict(kwargs) ==
    IF kwargs = <<>> THEN ""
    ELSE Head(kwargs).name \o "=" \o Head(kwargs).value
         \o (IF Len(kwargs) > 1 THEN "," ELSE "") \o JsonDict(Tail(kwargs))

\* cache_key_from_args: the digest of json.dumps({'args': args, 'kwargs': kwargs},
\* sort_keys=True); the digest of a text is one atom, different for different texts
cache_key_from_args(args, kwargs) ==
    "#{args:[" \o JsonList(args) \o "],kwargs:{" \o JsonDict(SortedKwargs(kwargs)) \o "}}"

\* The wrapped operations: how each is decorated and what its body does.
\*   add, mul          @cached(ttl=.., prefix="test") on a plain function (sync, async): the
\*                     body returns a value, returns None, or raises
\*   get_asset_info,   @cache_metadata() on async tool functions: the body calls the
\*   get_token_info    upstream API and turns any exception into an error dict
Funcs == {"add", "mul", "get_asset_info", "get_token_info"}

is_async(func) == func # "add"

\* the prefix= the decorator passes to cached()
decorator_prefix(func) ==
    IF func \in {"get_asset_info", "get_token_info"} THEN <<"metadata">> ELSE <<"test">>

\* the ttl= the decorator passes to cached(): get_ttl() of cache_metadata, or the ttl given
decorator_ttl(func) ==
    IF func \in {"get_asset_info", "get_token_info"} THEN DefaultTtlMetadata ELSE CachedTtl

\* whether the decorator passes key_func= (the category decorators do)
has_key_func(func) == func \in {"get_asset_info", "get_token_info"}

\* the cache key of a call: key_func(*args, **kwargs), or "<func.__name__>:<digest>"
wrapper_key(func, args, kwargs) ==
    IF has_key_func(func)
    THEN <<cache_key_from_args(args, kwargs)>>
    ELSE <<func, ":", cache_key_from_args(args, kwargs)>>

Exc == [tag |-> "exc", text |-> "boom"]

\* the body of a tool function: try: return await client...; except Exception: return {...}
tool_body(func, outcome) ==
    IF outcome = "raise" THEN [raised |-> FALSE, val |-> ErrorResult]
    ELSE [raised |-> FALSE, val |-> Str(func)]

\* the wrapped function run on an outcome of its own computation or upstream call; what
\* it returns on success names the function that produced it
run_body(func, outcome) ==
    IF func \in {"get_asset_info", "get_token_info"} THEN tool_body(func, outcome)
    ELSE CASE outcome = "ok" -> [raised |-> FALSE, val |-> Str(func)]
           [] outcome = "none" -> [raised |-> FALSE, val |-> None]
           [] outcome = "raise" -> [raised |-> TRUE, val |-> Exc]

\* wrapper: cache.get(cache_key, prefix=prefix) and the `is not None` test
wrapper_lookup(S, func, args, kwargs, t1, t2) ==
    LET r == cache_get(S, wrapper_key(func, args, kwargs), decorator_prefix(func), t1, t2)
    IN [store |-> r.store, hit |-> r.val # None, val |-> r.val]

\* (mutant) negative caching: the failure is stored before it is re-raised
wrapper_caches_failure(S, func, args, kwargs, exc, t) ==
    [store |-> cache_set(S, wrapper_key(func, args, kwargs), exc, decorator_ttl(func),
                         decorator_prefix(func), t).store,
     raised |-> TRUE, val |-> exc]

\* wrapper: `except Exception: ... raise`
wrapper_on_raise(S, func, args, kwargs, exc, t) ==
    [store |-> S, raised |-> TRUE, val |-> exc]

\* (mutant) the first result stored for a key is kept: a later set does not replace it
wrapper_finish_first_wins(S, func, args, kwargs, outcome, t) ==
    LET result == run_body(func, outcome)
        k == generate_key(wrapper_key(func, args, kwargs), decorator_prefix(func))
    IN IF result.raised
       THEN wrapper_on_raise(S, func, args, kwargs, result.val, t)
       ELSE IF k \in DOMAIN S.cache
            THEN [store |-> S, raised |-> FALSE, val |-> result.val]
            ELSE [store |-> cache_set(S, wrapper_key(func, args, kwargs), result.val,
                                      decorator_ttl(func), decorator_prefix(func), t).store,
                  raised |-> FALSE, val |-> result.val]

\* wrapper, after the lookup missed: the function has run, its result is cached and returned
wrapper_finish(S, func, args, kwargs, outcome, t) ==
    LET result == run_body(func, outcome)
    IN IF result.raised
       THEN wrapper_on_raise(S, func, args, kwargs, result.val, t)
       ELSE [store |-> cache_set(S, wrapper_key(func, args, kwargs), result.val,
                                 decorator_ttl(func), decorator_prefix(func), t).store,
             raised |-> FALSE, val |-> result.val]

\* (mutant) the bypass still stores what the function returned
wrapper_skip_stores(S, func, args, kwargs, outcome, t) ==
    LET result == run_body(func, outcome)
    IN IF result.raised THEN [store |-> S, raised |-> TRUE, val |-> result.val]
       ELSE [store |-> cache_set(S, wrapper_key(func, args, kwargs), result.val,
                                 decorator_ttl(func), decorator_prefix(func), t).store,
             raised |-> FALSE, val |-> result.val]

\* wrapper: `if skip_cache and skip_cache(*args, **kwargs): return func(*args, **kwargs)`,
\* the predicate having answered true
wrapper_skip(S, func, args, kwargs, outcome, t) ==
    LET result == run_body(func, outcome)
    IN [store |-> S, raised |-> result.raised, val |-> result.val]

----------------------------------------------------------------------------
(* Inputs *)

BaseKeys == {<<"a">>, <<"b">>}
Prefixes == {NoPrefix, <<"p">>}
StoreValues == {Str("v"), Str("ww")}
Ttls == {1, NoTtl}

Tasks == {"t1", "t2"}
ArgsSet == {<<"x">>, <<"y">>}

\* MemoryCache.__init__: no reaper task, the stop event clear
NewStore == [cleanup_task |-> 0, stop_cleanup |-> FALSE]

NoCall == [func |-> "", args |-> <<>>, kwargs |-> <<>>]

ZeroStats == [hits |-> 0, misses |-> 0, entries |-> 0, total_size_bytes |-> 0,
              evictions |-> 0, expirations |-> 0, average_ttl |-> ZeroFloat]

\* what a call was given (op, key, prefix, ttl) and what it gave back (val, flag, count,
\* raised), with the branch of get that produced it
Ret(op, key, prefix, ttl, val, flag, count, raised, branch) ==
    [op |-> op, key |-> key, prefix |-> prefix, ttl |-> ttl, val |-> val, flag |-> flag,
     count |-> count, raised |-> raised, branch |-> branch,
     func |-> "", args |-> <<>>, outcome |-> "", keys |-> {}, hit_rate |-> ZeroFloat,
     kwargs |-> <<>>, store |-> 0, task |-> 0]

\* everything but the global store
InitModule ==
    /\ cache = EmptyDict
    /\ access_order = <<>>
    /\ stats = ZeroStats
    /\ now = 0
    /\ ret = Ret("init", <<>>, NoPrefix, NoTtl, None, FALSE, 0, FALSE, "")
    /\ nops = 0
    /\ calls = [c \in Funcs \X ArgsSet |-> 0]
    /\ pc = [t \in Tasks |-> "idle"]
    /\ pending = [t \in Tasks |-> NoCall]
    /\ rtasks = <<>>
    /\ managers = <<>>
    /\ cache_manager = 0

\* a store has been constructed and is the global instance
Init ==
    /\ InitModule
    /\ stores = <<NewStore>>
    /\ cache_instance = 1

\* the modules have been imported and get_cache has not been called
InitImport ==
    /\ InitModule
    /\ stores = <<>>
    /\ cache_instance = 0

SetStore(S) ==
    /\ cache' = S.cache
    /\ access_order' = S.access_order
    /\ stats' = S.stats

WrapperIdle == UNCHANGED <<calls, pc, pending>>

----------------------------------------------------------------------------
(* Actions of the store *)

\* the clock advances
Tick ==
    /\ now < MaxTime
    /\ now' = now + 1
    /\ UNCHANGED <<cache, access_order, stats, ret, nops, calls, pc, pending>>
    /\ UNCHANGED lifecycle

Set(key, value, ttl, prefix) ==
    /\ LET r == cache_set(Store, key, value, ttl, prefix, now)
       IN /\ SetStore(r.store)
          /\ ret' = Ret("set", key, prefix, ttl, value, FALSE, 0, r.raised, "")
    /\ nops' = nops + 1
    /\ UNCHANGED now
    /\ WrapperIdle
    /\ UNCHANGED lifecycle

\* the clock may advance by d between get's two readings of it
Get(key, prefix, d) ==
    /\ now + d <= MaxTime
    /\ d > 0 => get_reaches_access(Store, key, prefix, now)
    /\ LET r == cache_get(Store, key, prefix, now, now + d)
       IN /\ SetStore(r.store)
          /\ ret' = Ret("get", key, prefix, NoTtl, r.val, FALSE, 0, r.raised, r.branch)
    /\ now' = now + d
    /\ nops' = nops + 1
    /\ WrapperIdle
    /\ UNCHANGED lifecycle

Delete(key, prefix) ==
    /\ LET r == cache_delete(Store, key, prefix)
       IN /\ SetStore(r.store)
          /\ ret' = Ret("delete", key, prefix, NoTtl, None, r.flag, 0, FALSE, "")
    /\ nops' = nops + 1
    /\ UNCHANGED now
    /\ WrapperIdle
    /\ UNCHANGED lifecycle

Exists(key, prefix) ==
    /\ LET r == cache_exists(Store, key, prefix, now)
       IN /\ SetStore(r.store)
          /\ ret' = Ret("exists", key, prefix, NoTtl, None, r.flag, 0, FALSE, "")
    /\ nops' = nops + 1
    /\ UNCHANGED now
    /\ WrapperIdle
    /\ UNCHANGED lifecycle

Clear(prefix, has_prefix) ==
    /\ LET r == cache_clear(Store, prefix, has_prefix)
       IN /\ SetStore(r.store)
          /\ ret' = Ret("clear", <<>>, prefix, NoTtl, None, has_prefix, r.count, FALSE, "")
    /\ nops' = nops + 1
    /\ UNCHANGED now
    /\ WrapperIdle
    /\ UNCHANGED lifecycle

CleanupExpired ==
    /\ LET r == cleanup_expired(Store, now)
       IN /\ SetStore(r.store)
          /\ ret' = Ret("cleanup_expired", <<>>, NoPrefix, NoTtl, None, FALSE, r.count, FALSE, "")
    /\ nops' = nops + 1
    /\ UNCHANGED now
    /\ WrapperIdle
    /\ UNCHANGED lifecycle

GetStats ==
    /\ LET r == get_stats(Store, now)
       IN /\ SetStore(r.store)
          /\ ret' = [Ret("get_stats", <<>>, NoPrefix, NoTtl, None, FALSE, r.stats.entries,
                         FALSE, "")
                        EXCEPT !.hit_rate = hit_rate(r.stats)]
    /\ nops' = nops + 1
    /\ UNCHANGED now
    /\ WrapperIdle
    /\ UNCHANGED lifecycle

GetKeys(prefix, has_prefix) ==
    /\ ret' = [Ret("get_keys", <<>>, prefix, NoTtl, None, has_prefix, 0, FALSE, "")
                  EXCEPT !.keys = get_keys(Store, prefix, has_prefix)]
    /\ nops' = nops + 1
    /\ UNCHANGED <<cache, access_order, stats, now>>
    /\ WrapperIdle
    /\ UNCHANGED lifecycle

Budget == nops < MaxOps

SetAny ==
    /\ Budget
    /\ \E key \in BaseKeys, value \in StoreValues, ttl \in Ttls, prefix \in Prefixes :
           Set(key, value, ttl, prefix)
GetAny ==
    /\ Budget
    /\ \E key \in BaseKeys, prefix \in Prefixes, d \in {0, 1} : Get(key, prefix, d)
DeleteAny ==
    /\ Budget
    /\ \E key \in BaseKeys, prefix \in Prefixes : Delete(key, prefix)
ExistsAny ==
    /\ Budget
    /\ \E key \in BaseKeys, prefix \in Prefixes : Exists(key, prefix)
ClearAny ==
    /\ Budget
    /\ \E prefix \in Prefixes : Clear(prefix, prefix # NoPrefix)
CleanupAny ==
    /\ Budget
    /\ CleanupExpired

StatsAny ==
    /\ Budget
    /\ GetStats
KeysAny ==
    /\ Budget
    /\ \E prefix \in Prefixes : GetKeys(prefix, prefix # NoPrefix)

Next ==
    \/ Tick
    \/ SetAny
    \/ GetAny
    \/ DeleteAny
    \/ ExistsAny
    \/ ClearAny
    \/ CleanupAny
    \/ StatsAny
    \/ KeysAny

Spec == Init /\ [][Next]_vars

----------------------------------------------------------------------------
(* The store under set, get, exists and the clock alone: longer runs, for the LRU order *)

LruBudget == nops < MaxLruOps

LruSet ==
    /\ LruBudget
    /\ \E key \in BaseKeys, prefix \in Prefixes : Set(key, Str("v"), NoTtl, prefix)
LruGet ==
    /\ LruBudget
    /\ \E key \in BaseKeys, prefix \in Prefixes : Get(key, prefix, 0)
LruExists ==
    /\ LruBudget
    /\ \E key \in BaseKeys, prefix \in Prefixes : Exists(key, prefix)

NextLru ==
    \/ Tick
    \/ LruSet
    \/ LruGet
    \/ LruExists

SpecLru == Init /\ [][NextLru]_vars

----------------------------------------------------------------------------
(* The store with base keys that contain ":" themselves, under set, clear and get_keys *)

ColonKeys == {<<"a">>, <<"p", ":", "a">>}
NamedPrefixes == {NoPrefix, <<"p">>, <<"q">>}

ClearByType(data_type) ==
    /\ LET r == clear_by_type(Store, data_type)
       IN /\ SetStore(r.store)
          /\ ret' = Ret("clear", <<>>, data_type, NoTtl, None, TRUE, r.count, FALSE, "")
    /\ nops' = nops + 1
    /\ UNCHANGED now
    /\ WrapperIdle
    /\ UNCHANGED lifecycle

PrefixSet ==
    /\ Budget
    /\ \E key \in ColonKeys, value \in StoreValues, prefix \in NamedPrefixes :
           Set(key, value, NoTtl, prefix)
PrefixClear ==
    /\ Budget
    /\ \E prefix \in NamedPrefixes : Clear(prefix, prefix # NoPrefix)
PrefixClearByType ==
    /\ Budget
    /\ \E data_type \in NamedPrefixes \ {NoPrefix} : ClearByType(data_type)
PrefixKeys ==
    /\ Budget
    /\ \E prefix \in NamedPrefixes : GetKeys(prefix, prefix # NoPrefix)

NextPrefix ==
    \/ PrefixSet
    \/ PrefixClear
    \/ PrefixClearByType
    \/ PrefixKeys

SpecPrefix == Init /\ [][NextPrefix]_vars

----------------------------------------------------------------------------
(* Actions of the wrappers *)

Outcomes(func) ==
    IF func \in {"get_asset_info", "get_token_info"} THEN {"ok", "raise"}
    ELSE {"ok", "none", "raise"}

CallRet(op, func, args, val, raised, outcome) ==
    [Ret(op, wrapper_key(func, args, <<>>), decorator_prefix(func), decorator_ttl(func),
         val, FALSE, 0, raised, "")
        EXCEPT !.func = func, !.args = args, !.outcome = outcome]

Invoked(func, args) == [calls EXCEPT ![<<func, args>>] = @ + 1]

\* sync_wrapper: one call, start to end
SyncCall(func, args, outcome, d) ==
    /\ ~is_async(func)
    /\ now + d <= MaxTime
    /\ d > 0 => get_reaches_access(Store, wrapper_key(func, args, <<>>),
                                   decorator_prefix(func), now)
    /\ LET l == wrapper_lookup(Store, func, args, <<>>, now, now + d)
           r == wrapper_finish(l.store, func, args, <<>>, outcome, now + d)
       IN IF l.hit
          THEN /\ SetStore(l.store)
               /\ ret' = CallRet("call", func, args, l.val, FALSE, "")
               /\ UNCHANGED calls
          ELSE /\ SetStore(r.store)
               /\ ret' = CallRet("call", func, args, r.val, r.raised, outcome)
               /\ calls' = Invoked(func, args)
    /\ now' = now + d
    /\ nops' = nops + 1
    /\ UNCHANGED <<pc, pending>>
    /\ UNCHANGED lifecycle

\* async_wrapper up to its return on a hit, or to its suspension in `await func(...)`
AsyncCall(t, func, args, d) ==
    /\ is_async(func)
    /\ pc[t] = "idle"
    /\ now + d <= MaxTime
    /\ d > 0 => get_reaches_access(Store, wrapper_key(func, args, <<>>),
                                   decorator_prefix(func), now)
    /\ LET l == wrapper_lookup(Store, func, args, <<>>, now, now + d)
       IN /\ SetStore(l.store)
          /\ IF l.hit
             THEN /\ ret' = CallRet("call", func, args, l.val, FALSE, "")
                  /\ UNCHANGED <<calls, pc, pending>>
             ELSE /\ ret' = CallRet("fetch", func, args, None, FALSE, "")
                  /\ calls' = Invoked(func, args)
                  /\ pc' = [pc EXCEPT ![t] = "fetching"]
                  /\ pending' = [pending EXCEPT
                                   ![t] = [func |-> func, args |-> args, kwargs |-> <<>>]]
    /\ now' = now + d
    /\ nops' = nops + 1
    /\ UNCHANGED lifecycle

\* async_wrapper from the return of `await func(...)` to its end
AsyncResume(t, outcome) ==
    /\ pc[t] = "fetching"
    /\ outcome \in Outcomes(pending[t].func)
    /\ LET c == pending[t]
           r == wrapper_finish(Store, c.func, c.args, c.kwargs, outcome, now)
       IN /\ SetStore(r.store)
          /\ ret' = CallRet("resume", c.func, c.args, r.val, r.raised, outcome)
    /\ pc' = [pc EXCEPT ![t] = "idle"]
    /\ pending' = [pending EXCEPT ![t] = NoCall]
    /\ nops' = nops + 1
    /\ UNCHANGED <<now, calls>>
    /\ UNCHANGED lifecycle

WrapBudget == nops < MaxWrapOps

WrapSync ==
    /\ WrapBudget
    /\ \E func \in Funcs, args \in ArgsSet, d \in {0, 1} :
           \E outcome \in Outcomes(func) : SyncCall(func, args, outcome, d)
WrapAsync ==
    /\ WrapBudget
    /\ \E t \in Tasks, func \in Funcs, args \in ArgsSet, d \in {0, 1} :
           AsyncCall(t, func, args, d)
WrapResume ==
    \E t \in Tasks, outcome \in {"ok", "none", "raise"} : AsyncResume(t, outcome)

NextWrap ==
    \/ Tick
    \/ WrapSync
    \/ WrapAsync
    \/ WrapResume

SpecWrap == Init /\ [][NextWrap]_vars

----------------------------------------------------------------------------
(* The wrappers of functions decorated with skip_cache=: add and mul as
   @cached(ttl=.., prefix="test", skip_cache=pred).  What pred answers for a call is an
   input of the call: it is any callable, free to consult more than the arguments. *)

\* sync_wrapper when skip_cache(*args, **kwargs) is true
SyncSkip(func, args, outcome) ==
    /\ ~is_async(func)
    /\ LET r == wrapper_skip(Store, func, args, <<>>, outcome, now)
       IN /\ SetStore(r.store)
          /\ ret' = CallRet("skip_call", func, args, r.val, r.raised, outcome)
    /\ calls' = Invoked(func, args)
    /\ nops' = nops + 1
    /\ UNCHANGED <<now, pc, pending>>
    /\ UNCHANGED lifecycle

\* async_wrapper when skip_cache(*args, **kwargs) is true, up to `await func(...)`
AsyncSkip(t, func, args) ==
    /\ is_async(func)
    /\ pc[t] = "idle"
    /\ ret' = CallRet("skip_fetch", func, args, None, FALSE, "")
    /\ calls' = Invoked(func, args)
    /\ pc' = [pc EXCEPT ![t] = "skipping"]
    /\ pending' = [pending EXCEPT ![t] = [func |-> func, args |-> args, kwargs |-> <<>>]]
    /\ nops' = nops + 1
    /\ UNCHANGED <<cache, access_order, stats, now>>
    /\ UNCHANGED lifecycle

\* async_wrapper returning what `await func(...)` gave, the cache bypassed
AsyncSkipResume(t, outcome) ==
    /\ pc[t] = "skipping"
    /\ LET c == pending[t]
           r == wrapper_skip(Store, c.func, c.args, c.kwargs, outcome, now)
       IN /\ SetStore(r.store)
          /\ ret' = CallRet("skip_resume", c.func, c.args, r.val, r.raised, outcome)
    /\ pc' = [pc EXCEPT ![t] = "idle"]
    /\ pending' = [pending EXCEPT ![t] = NoCall]
    /\ nops' = nops + 1
    /\ UNCHANGED <<now, calls>>
    /\ UNCHANGED lifecycle

SkipFuncs == {"add", "mul"}

SkipSyncCached ==
    /\ WrapBudget
    /\ \E func \in SkipFuncs, args \in ArgsSet, outcome \in {"ok", "none", "raise"} :
           SyncCall(func, args, outcome, 0)
SkipAsyncCached ==
    /\ WrapBudget
    /\ \E t \in Tasks, func \in SkipFuncs, args \in ArgsSet : AsyncCall(t, func, args, 0)
SkipSyncBypass ==
    /\ WrapBudget
    /\ \E func \in SkipFuncs, args \in ArgsSet, outcome \in {"ok", "none", "raise"} :
           SyncSkip(func, args, outcome)
SkipAsyncBypass ==
    /\ WrapBudget
    /\ \E t \in Tasks, func \in SkipFuncs, args \in ArgsSet : AsyncSkip(t, func, args)
SkipBypassResume ==
    \E t \in Tasks, outcome \in {"ok", "none", "raise"} : AsyncSkipResume(t, outcome)

NextSkip ==
    \/ Tick
    \/ SkipSyncCached
    \/ SkipAsyncCached
    \/ WrapResume
    \/ SkipSyncBypass
    \/ SkipAsyncBypass
    \/ SkipBypassResume

SpecSkip == Init /\ [][NextSkip]_vars

----------------------------------------------------------------------------
(* The store under concurrent threads.  Every public method runs `with self._lock:`;
   inside, it writes _cache first, then _access_order, then _stats.  A thread's call is
   therefore four steps here: it takes the lock and reads the store, writes the map,
   writes the LRU order, writes the counters and releases.  get_stats and get_keys are
   the observers: they take the lock, look, and release in one step.  One of the
   threads is the reaper when it calls cleanup_expired. *)

MaxLockOps == 3

\* (mutant) the lock is taken before the lookup and released after the result is stored
LockedPcsAcrossFetch == {"locked", "wrote_cache", "wrote_order", "fetching", "computing"}

\* where a thread holds self._lock
LockedPcs == {"locked", "wrote_cache", "wrote_order"}

\* (mutant) a lock that never blocks
lock_never_blocks(t) == TRUE

\* threading.RLock: free, or held by the thread itself
lock_available(t) == \A u \in Tasks \ {t} : pc[u] \notin LockedPcs

LockBudget == nops + Cardinality({t \in Tasks : pc[t] # "idle"}) < MaxLockOps

\* __enter__ of the lock, and what the method computes from the store it finds
LockedBegin(t, op, store, r) ==
    /\ LockBudget
    /\ pc[t] = "idle"
    /\ lock_available(t)
    /\ pc' = [pc EXCEPT ![t] = "locked"]
    /\ pending' = [pending EXCEPT ![t] = [op |-> op, store |-> store, ret |-> r]]
    /\ UNCHANGED <<cache, access_order, stats, now, ret, nops, calls>>
    /\ UNCHANGED lifecycle

LockedSet(t, key, value, ttl) ==
    LET r == cache_set(Store, key, value, ttl, NoPrefix, now)
    IN LockedBegin(t, "set", r.store,
                   Ret("set", key, NoPrefix, ttl, value, FALSE, 0, r.raised, ""))

LockedGet(t, key) ==
    LET r == cache_get(Store, key, NoPrefix, now, now)
    IN LockedBegin(t, "get", r.store,
                   Ret("get", key, NoPrefix, NoTtl, r.val, FALSE, 0, r.raised, r.branch))

LockedDelete(t, key) ==
    LET r == cache_delete(Store, key, NoPrefix)
    IN LockedBegin(t, "delete", r.store,
                   Ret("delete", key, NoPrefix, NoTtl, None, r.flag, 0, FALSE, ""))

LockedExists(t, key) ==
    LET r == cache_exists(Store, key, NoPrefix, now)
    IN LockedBegin(t, "exists", r.store,
                   Ret("exists", key, NoPrefix, NoTtl, None, r.flag, 0, FALSE, ""))

LockedClear(t) ==
    LET r == cache_clear(Store, NoPrefix, FALSE)
    IN LockedBegin(t, "clear", r.store,
                   Ret("clear", <<>>, NoPrefix, NoTtl, None, FALSE, r.count, FALSE, ""))

LockedCleanup(t) ==
    LET r == cleanup_expired(Store, now)
    IN LockedBegin(t, "cleanup_expired", r.store,
                   Ret("cleanup_expired", <<>>, NoPrefix, NoTtl, None, FALSE, r.count,
                       FALSE, ""))

\* the writes to self._cache
WriteCache(t) ==
    /\ pc[t] = "locked"
    /\ cache' = pending[t].store.cache
    /\ pc' = [pc EXCEPT ![t] = "wrote_cache"]
    /\ UNCHANGED <<access_order, stats, now, ret, nops, calls, pending>>
    /\ UNCHANGED lifecycle

\* the writes to self._access_order
WriteOrder(t) ==
    /\ pc[t] = "wrote_cache"
    /\ access_order' = pending[t].store.access_order
    /\ pc' = [pc EXCEPT ![t] = "wrote_order"]
    /\ UNCHANGED <<cache, stats, now, ret, nops, calls, pending>>
    /\ UNCHANGED lifecycle

\* the writes to self._stats, the return and __exit__ of the lock
WriteStats(t) ==
    /\ pc[t] = "wrote_order"
    /\ stats' = pending[t].store.stats
    /\ ret' = pending[t].ret
    /\ nops' = nops + 1
    /\ pc' = [pc EXCEPT ![t] = "idle"]
    /\ pending' = [pending EXCEPT ![t] = NoCall]
    /\ UNCHANGED <<cache, access_order, now, calls>>
    /\ UNCHANGED lifecycle

LockedGetStats(t) ==
    /\ LockBudget
    /\ pc[t] = "idle"
    /\ lock_available(t)
    /\ GetStats

LockedGetKeys(t) ==
    /\ LockBudget
    /\ pc[t] = "idle"
    /\ lock_available(t)
    /\ GetKeys(NoPrefix, FALSE)

LockBegin ==
    \E t \in Tasks, key \in BaseKeys :
        \/ LockedSet(t, key, Str("v"), 1)
        \/ LockedGet(t, key)
        \/ LockedDelete(t, key)
        \/ LockedExists(t, key)
        \/ LockedClear(t)
        \/ LockedCleanup(t)
LockWrite == \E t \in Tasks : WriteCache(t) \/ WriteOrder(t) \/ WriteStats(t)
LockObserve == \E t \in Tasks : LockedGetStats(t) \/ LockedGetKeys(t)

NextLock ==
    \/ Tick
    \/ LockBegin
    \/ LockWrite
    \/ LockObserve

SpecLock == Init /\ [][NextLock]_vars

----------------------------------------------------------------------------
(* Cache-aside calls next to other callers of the store.  A wrapper takes the store
   lock twice, inside cache.get and inside cache.set, and runs the function between the
   two: an async function suspended in `await func(...)`, a sync function computing in
   its own thread.  The other callers' operations are those of the threads above. *)

\* sync_wrapper in a thread, up to its return on a hit or to the call of func
SyncBegin(t, func, args) ==
    /\ ~is_async(func)
    /\ pc[t] = "idle"
    /\ LET l == wrapper_lookup(Store, func, args, <<>>, now, now)
       IN /\ SetStore(l.store)
          /\ IF l.hit
             THEN /\ ret' = CallRet("call", func, args, l.val, FALSE, "")
                  /\ UNCHANGED <<calls, pc, pending>>
             ELSE /\ ret' = CallRet("fetch", func, args, None, FALSE, "")
                  /\ calls' = Invoked(func, args)
                  /\ pc' = [pc EXCEPT ![t] = "computing"]
                  /\ pending' = [pending EXCEPT
                                   ![t] = [func |-> func, args |-> args, kwargs |-> <<>>]]
    /\ nops' = nops + 1
    /\ UNCHANGED now
    /\ UNCHANGED lifecycle

\* sync_wrapper from the return of func to its end
SyncEnd(t, outcome) ==
    /\ pc[t] = "computing"
    /\ LET c == pending[t]
           r == wrapper_finish(Store, c.func, c.args, c.kwargs, outcome, now)
       IN /\ SetStore(r.store)
          /\ ret' = CallRet("resume", c.func, c.args, r.val, r.raised, outcome)
    /\ pc' = [pc EXCEPT ![t] = "idle"]
    /\ pending' = [pending EXCEPT ![t] = NoCall]
    /\ nops' = nops + 1
    /\ UNCHANGED <<now, calls>>
    /\ UNCHANGED lifecycle

FetchPcs == {"fetching", "computing"}

\* the full key under which add("x") and mul("x") are cached
FetchKeys ==
    {generate_key(wrapper_key(f, <<"x">>, <<>>), decorator_prefix(f)) : f \in SkipFuncs}

FetchBegin ==
    \E t \in Tasks, func \in SkipFuncs :
        /\ LockBudget
        /\ lock_available(t)
        /\ AsyncCall(t, func, <<"x">>, 0) \/ SyncBegin(t, func, <<"x">>)
FetchEnd ==
    \E t \in Tasks, outcome \in {"ok", "raise"} :
        /\ lock_available(t)
        /\ AsyncResume(t, outcome) \/ SyncEnd(t, outcome)
FetchOther ==
    \E t \in Tasks, key \in FetchKeys \cup {<<"a">>} :
        \/ LockedSet(t, key, Str("v"), 1)
        \/ LockedGet(t, key)
        \/ LockedDelete(t, key)
        \/ LockedCleanup(t)

NextFetch ==
    \/ Tick
    \/ FetchBegin
    \/ FetchEnd
    \/ FetchOther
    \/ LockWrite

SpecFetch == Init /\ [][NextFetch]_vars

----------------------------------------------------------------------------
(* The reaper of the store next to callers that set entries and start and stop it *)

MaxReaperOps == 3
MaxReapers == 2

ReaperBudget == nops + Cardinality({t \in Tasks : pc[t] # "idle"}) < MaxReaperOps

LifeRet(op, s, r, flag) ==
    [Ret(op, <<>>, NoPrefix, NoTtl, None, flag, 0, FALSE, "") EXCEPT !.store = s, !.task = r]

StartCleanupTask(s) ==
    /\ Len(rtasks) < MaxReapers
    /\ LET r == start_cleanup_task(stores, rtasks, s)
       IN /\ stores' = r.stores
          /\ rtasks' = r.rtasks
          /\ ret' = LifeRet("start", s, r.stores[s].cleanup_task, r.created)
    /\ nops' = nops + 1
    /\ UNCHANGED <<cache, access_order, stats, now, calls, pc, pending,
                   cache_instance, managers, cache_manager>>

\* stop_cleanup_task up to its return, or to its suspension in `await self._cleanup_task`
StopBegin(t, s) ==
    /\ pc[t] = "idle"
    /\ LET r == stop_cleanup_task(stores, rtasks, s)
       IN /\ stores' = r.stores
          /\ rtasks' = r.rtasks
          /\ IF r.awaits = 0
             THEN /\ ret' = LifeRet("stop", s, stores[s].cleanup_task, FALSE)
                  /\ nops' = nops + 1
                  /\ UNCHANGED <<pc, pending>>
             ELSE /\ pc' = [pc EXCEPT ![t] = "stopping"]
                  /\ pending' = [pending EXCEPT
                                   ![t] = [op |-> "stop", store |-> s, task |-> r.awaits]]
                  /\ UNCHANGED <<ret, nops>>
    /\ UNCHANGED <<cache, access_order, stats, now, calls,
                   cache_instance, managers, cache_manager>>

\* the awaited task is done: CancelledError is caught, stop_cleanup_task returns
StopEnd(t) ==
    /\ pc[t] = "stopping"
    /\ Done(rtasks[pending[t].task])
    /\ ret' = LifeRet("stop", pending[t].store, pending[t].task, TRUE)
    /\ nops' = nops + 1
    /\ pc' = [pc EXCEPT ![t] = "idle"]
    /\ pending' = [pending EXCEPT ![t] = NoCall]
    /\ UNCHANGED <<cache, access_order, stats, now, calls>>
    /\ UNCHANGED lifecycle

\* the event loop runs reaper task r
ReaperStep(r, outcome) ==
    /\ ~Done(rtasks[r])
    /\ LET task == rtasks[r]
           res == cleanup_loop(task, stores[task.store].stop_cleanup, outcome)
       IN /\ outcome = "error" => res.sweep = "error" /\ task.errors < MaxSweepErrors
          /\ rtasks' = [rtasks EXCEPT ![r] = res.task]
          /\ IF res.sweep = "ok" /\ task.store = 1
             THEN SetStore(reaper_sweep(Store, now).store)
             ELSE UNCHANGED <<cache, access_order, stats>>
    /\ UNCHANGED <<now, ret, nops, calls, pc, pending,
                   stores, cache_instance, managers, cache_manager>>

ReaperSet ==
    /\ ReaperBudget
    /\ \E key \in BaseKeys : Set(key, Str("v"), 1, NoPrefix)
ReaperStart ==
    /\ ReaperBudget
    /\ \E s \in 1..Len(stores) : StartCleanupTask(s)
ReaperStop ==
    /\ ReaperBudget
    /\ \E t \in Tasks, s \in 1..Len(stores) : StopBegin(t, s)
ReaperStopped == \E t \in Tasks : StopEnd(t)
ReaperRuns == \E r \in 1..Len(rtasks), outcome \in {"ok", "error"} : ReaperStep(r, outcome)

NextReaper ==
    \/ Tick
    \/ ReaperSet
    \/ ReaperStart
    \/ ReaperStop
    \/ ReaperStopped
    \/ ReaperRuns

SpecReaper == Init /\ [][NextReaper]_vars

\* the event loop lets every task that can run do so
SpecReaperLive == SpecReaper /\ WF_vars(ReaperRuns)

----------------------------------------------------------------------------
(* The global store and the global cache manager.  get_cache and get_cache_manager are
   plain functions that any thread may call: a step is one read or write of a global,
   or the acquisition of _cache_lock. *)

MaxStores == 2
MaxManagers == 2
MaxSingletonOps == 3

\* where a thread is inside get_cache
GetCachePcs == {"gc_wait", "gc_locked", "gc_create", "gc_return"}

\* where a thread holds _cache_lock
CacheLockPcs == {"gc_locked", "gc_create"}

\* (mutant) get_cache without mutual exclusion
cache_lock_never_blocks(t) == TRUE

\* threading.Lock: free
cache_lock_available(t) == \A u \in Tasks \ {t} : pc[u] \notin CacheLockPcs

Caller(op) == [op |-> op, store |-> 0, task |-> 0]

\* get_cache is entered, from its caller op: `if _cache_instance is None`
GetCacheBegin(t, op) ==
    /\ pc[t] = "idle"
    /\ pc' = [pc EXCEPT ![t] = IF cache_instance = 0 THEN "gc_wait" ELSE "gc_return"]
    /\ pending' = [pending EXCEPT ![t] = Caller(op)]
    /\ UNCHANGED <<cache, access_order, stats, now, ret, nops, calls>>
    /\ UNCHANGED lifecycle

\* `with _cache_lock` is entered
GetCacheAcquire(t) ==
    /\ pc[t] = "gc_wait"
    /\ cache_lock_available(t)
    /\ pc' = [pc EXCEPT ![t] = "gc_locked"]
    /\ UNCHANGED <<cache, access_order, stats, now, ret, nops, calls, pending>>
    /\ UNCHANGED lifecycle

\* the second `if _cache_instance is None`; the lock is released when the test fails
GetCacheCheck(t) ==
    /\ pc[t] = "gc_locked"
    /\ pc' = [pc EXCEPT ![t] = IF cache_instance = 0 THEN "gc_create" ELSE "gc_return"]
    /\ UNCHANGED <<cache, access_order, stats, now, ret, nops, calls, pending>>
    /\ UNCHANGED lifecycle

\* `_cache_instance = MemoryCache()`, and the lock is released
GetCacheCreate(t) ==
    /\ pc[t] = "gc_create"
    /\ Len(stores) < MaxStores
    /\ stores' = Append(stores, NewStore)
    /\ cache_instance' = Len(stores) + 1
    /\ pc' = [pc EXCEPT ![t] = "gc_return"]
    /\ UNCHANGED <<cache, access_order, stats, now, ret, nops, calls, pending,
                   rtasks, managers, cache_manager>>

\* `return _cache_instance` to a caller of get_cache
GetCacheReturn(t) ==
    /\ pc[t] = "gc_return" /\ pending[t].op = "get_cache"
    /\ ret' = LifeRet("get_cache", cache_instance, 0, FALSE)
    /\ nops' = nops + 1
    /\ pc' = [pc EXCEPT ![t] = "idle"]
    /\ pending' = [pending EXCEPT ![t] = NoCall]
    /\ UNCHANGED <<cache, access_order, stats, now, calls>>
    /\ UNCHANGED lifecycle

SingletonBudget == nops + Cardinality({t \in Tasks : pc[t] # "idle"}) < MaxSingletonOps

SingletonCall ==
    /\ SingletonBudget
    /\ \E t \in Tasks : GetCacheBegin(t, "get_cache")
SingletonAcquire == \E t \in Tasks : GetCacheAcquire(t)
SingletonCheck == \E t \in Tasks : GetCacheCheck(t)
SingletonCreate == \E t \in Tasks : GetCacheCreate(t)
SingletonReturn == \E t \in Tasks : GetCacheReturn(t)
\* a caller uses the store it was given
SingletonSet ==
    /\ SingletonBudget
    /\ ret.op = "get_cache" /\ ret.store = 1
    /\ \E key \in BaseKeys : Set(key, Str("v"), NoTtl, NoPrefix)

NextSingleton ==
    \/ Tick
    \/ SingletonCall
    \/ SingletonAcquire
    \/ SingletonCheck
    \/ SingletonCreate
    \/ SingletonReturn
    \/ SingletonSet

SpecSingleton == InitImport /\ [][NextSingleton]_vars

----------------------------------------------------------------------------
(* initialize_cache and shutdown_cache are coroutines of the event loop that also runs
   the reaper: one of them runs without interruption by the other or by the reaper
   until it is suspended in an await of a task, while threads may be inside get_cache. *)

MaxLifeOps == 4

\* initialize_cache, after `cache = get_cache()`: await cache.start_cleanup_task()
InitializeReturn(t) ==
    /\ pc[t] = "gc_return" /\ pending[t].op = "initialize"
    /\ cache_instance # 0
    /\ Len(rtasks) < MaxReapers
    /\ LET r == start_cleanup_task(stores, rtasks, cache_instance)
       IN /\ stores' = r.stores
          /\ rtasks' = r.rtasks
          /\ ret' = LifeRet("initialize", cache_instance,
                            r.stores[cache_instance].cleanup_task, r.created)
    /\ nops' = nops + 1
    /\ pc' = [pc EXCEPT ![t] = "idle"]
    /\ pending' = [pending EXCEPT ![t] = NoCall]
    /\ UNCHANGED <<cache, access_order, stats, now, calls,
                   cache_instance, managers, cache_manager>>

\* shutdown_cache up to its return, or to its suspension inside stop_cleanup_task
ShutdownBegin(t) ==
    /\ pc[t] = "idle"
    /\ IF cache_instance = 0
       THEN /\ ret' = LifeRet("shutdown", 0, 0, FALSE)
            /\ nops' = nops + 1
            /\ UNCHANGED <<pc, pending, stores, rtasks, cache_instance>>
       ELSE LET r == stop_cleanup_task(stores, rtasks, cache_instance)
            IN /\ stores' = r.stores
               /\ rtasks' = r.rtasks
               /\ IF r.awaits = 0
                  THEN /\ cache_instance' = 0
                       /\ ret' = LifeRet("shutdown", cache_instance,
                                         stores[cache_instance].cleanup_task, FALSE)
                       /\ nops' = nops + 1
                       /\ UNCHANGED <<pc, pending>>
                  ELSE /\ pc' = [pc EXCEPT ![t] = "shutting_down"]
                       /\ pending' = [pending EXCEPT
                                        ![t] = [op |-> "shutdown", store |-> cache_instance,
                                                task |-> r.awaits]]
                       /\ UNCHANGED <<ret, nops, cache_instance>>
    /\ UNCHANGED <<cache, access_order, stats, now, calls, managers, cache_manager>>

\* stop_cleanup_task returns to shutdown_cache: _cache_instance = None
ShutdownEnd(t) ==
    /\ pc[t] = "shutting_down"
    /\ Done(rtasks[pending[t].task])
    /\ cache_instance' = 0
    /\ ret' = LifeRet("shutdown", pending[t].store, pending[t].task, TRUE)
    /\ nops' = nops + 1
    /\ pc' = [pc EXCEPT ![t] = "idle"]
    /\ pending' = [pending EXCEPT ![t] = NoCall]
    /\ UNCHANGED <<cache, access_order, stats, now, calls,
                   stores, rtasks, managers, cache_manager>>

\* a coroutine is between two of its steps without being suspended
LoopBusy == \E t \in Tasks : pc[t] \in GetCachePcs /\ pending[t].op = "initialize"

\* an initialize_cache or shutdown_cache call has not returned yet
LifecycleCallOpen == LoopBusy \/ \E t \in Tasks : pc[t] = "shutting_down"

LifeBudget == nops + Cardinality({t \in Tasks : pc[t] # "idle"}) < MaxLifeOps

LifeInitialize ==
    /\ LifeBudget /\ ~LifecycleCallOpen
    /\ \E t \in Tasks : GetCacheBegin(t, "initialize")
LifeInitialized == \E t \in Tasks : InitializeReturn(t)
LifeShutdown ==
    /\ LifeBudget /\ ~LifecycleCallOpen
    /\ \E t \in Tasks : ShutdownBegin(t)
LifeShutDown == \E t \in Tasks : ShutdownEnd(t)
LifeGetCache ==
    /\ LifeBudget
    /\ \E t \in Tasks : GetCacheBegin(t, "get_cache")
LifeAcquire == \E t \in Tasks : GetCacheAcquire(t)
LifeCheck == \E t \in Tasks : GetCacheCheck(t)
LifeCreate == \E t \in Tasks : GetCacheCreate(t)
LifeReturn == \E t \in Tasks : GetCacheReturn(t)
LifeReaperRuns ==
    /\ ~LoopBusy
    /\ \E r \in 1..Len(rtasks) : ReaperStep(r, "ok")

NextLifecycle ==
    \/ LifeInitialize
    \/ LifeInitialized
    \/ LifeShutdown
    \/ LifeShutDown
    \/ LifeGetCache
    \/ LifeAcquire
    \/ LifeCheck
    \/ LifeCreate
    \/ LifeReturn
    \/ LifeReaperRuns

SpecLifecycle == Init /\ [][NextLifecycle]_vars

----------------------------------------------------------------------------
(* get_cache_manager, called by threads *)

\* `if _cache_manager is None`, and CacheManager.__init__ entering get_cache
ManagerBegin(t) ==
    /\ pc[t] = "idle"
    /\ IF cache_manager = 0
       THEN GetCacheBegin(t, "manager")
       ELSE /\ pc' = [pc EXCEPT ![t] = "gm_return"]
            /\ pending' = [pending EXCEPT ![t] = Caller("get_cache_manager")]
            /\ UNCHANGED <<cache, access_order, stats, now, ret, nops, calls>>
            /\ UNCHANGED lifecycle

\* CacheManager.__init__: self.cache = get_cache(); then _cache_manager = CacheManager()
ManagerInit(t) ==
    /\ pc[t] = "gc_return" /\ pending[t].op = "manager"
    /\ Len(managers) < MaxManagers
    /\ managers' = Append(managers, [cache |-> cache_instance])
    /\ cache_manager' = Len(managers) + 1
    /\ pc' = [pc EXCEPT ![t] = "gm_return"]
    /\ pending' = [pending EXCEPT ![t] = Caller("get_cache_manager")]
    /\ UNCHANGED <<cache, access_order, stats, now, ret, nops, calls,
                   stores, rtasks, cache_instance>>

\* `return _cache_manager`
ManagerReturn(t) ==
    /\ pc[t] = "gm_return"
    /\ ret' = [LifeRet("get_cache_manager", 0, 0, FALSE) EXCEPT !.count = cache_manager]
    /\ nops' = nops + 1
    /\ pc' = [pc EXCEPT ![t] = "idle"]
    /\ pending' = [pending EXCEPT ![t] = NoCall]
    /\ UNCHANGED <<cache, access_order, stats, now, calls>>
    /\ UNCHANGED lifecycle

MaxManagerOps == 3

ManagerBudget == nops + Cardinality({t \in Tasks : pc[t] # "idle"}) < MaxManagerOps

ManagerCall ==
    /\ ManagerBudget
    /\ \E t \in Tasks : ManagerBegin(t)
ManagerGetCache ==
    /\ ManagerBudget
    /\ \E t \in Tasks : GetCacheBegin(t, "get_cache")
ManagerAcquire == \E t \in Tasks : GetCacheAcquire(t)
ManagerCheck == \E t \in Tasks : GetCacheCheck(t)
ManagerCreate == \E t \in Tasks : GetCacheCreate(t)
ManagerGotCache == \E t \in Tasks : GetCacheReturn(t)
ManagerCreated == \E t \in Tasks : ManagerInit(t)
ManagerReturned == \E t \in Tasks : ManagerReturn(t)

NextManager ==
    \/ ManagerCall
    \/ ManagerGetCache
    \/ ManagerAcquire
    \/ ManagerCheck
    \/ ManagerCreate
    \/ ManagerGotCache
    \/ ManagerCreated
    \/ ManagerReturned

SpecManager == InitImport /\ [][NextManager]_vars

----------------------------------------------------------------------------
(* The cache manager's invalidation, on a store filled under its prefixes *)

MaxInvalidateOps == 3

TokenIds == {<<"a">>, <<"a", "b">>, <<"t">>}
TokenKeys == {<<"a">>, <<"a", "b">>, <<"b", ":", "a">>, <<"b">>}
TokenPrefixes == {PricePrefix, MetadataPrefix, HistoryPrefix, <<"s">>}

InvalidateTokenData(token_id) ==
    /\ LET r == invalidate_token_data(Store, token_id)
       IN /\ SetStore(r.store)
          /\ ret' = [Ret("invalidate", token_id, NoPrefix, NoTtl, None, FALSE, 0, FALSE, "")
                        EXCEPT !.keys = r.history_keys]
    /\ nops' = nops + 1
    /\ UNCHANGED now
    /\ WrapperIdle
    /\ UNCHANGED lifecycle

InvalidateSet ==
    /\ nops < MaxInvalidateOps
    /\ \E key \in TokenKeys, prefix \in TokenPrefixes : Set(key, Str("v"), NoTtl, prefix)
InvalidateCall ==
    /\ nops < MaxInvalidateOps
    /\ \E token_id \in TokenIds : InvalidateTokenData(token_id)

NextInvalidate ==
    \/ InvalidateSet
    \/ InvalidateCall

SpecInvalidate == Init /\ [][NextInvalidate]_vars

----------------------------------------------------------------------------
(* The default key derivation, applied to calls that differ in their positional
   arguments and in the names, values and order of their named arguments *)

MaxKeyOps == 3

KeyArgs == {<<>>, <<"x">>, <<"y">>, <<"x", "y">>}
KwValues == {"1", "2"}
KeyKwargs ==
    {<<>>}
    \cup {<<[name |-> n, value |-> v]>> : n \in {"time_point", "token_id"}, v \in KwValues}
    \cup {<<[name |-> "time_point", value |-> v], [name |-> "token_id", value |-> w]>> :
              v \in KwValues, w \in KwValues}
    \cup {<<[name |-> "token_id", value |-> w], [name |-> "time_point", value |-> v]>> :
              v \in KwValues, w \in KwValues}

\* cache_key_from_args(*args, **kwargs) is called
CacheKeyFromArgs(args, kwargs) ==
    /\ ret' = [Ret("cache_key_from_args", <<cache_key_from_args(args, kwargs)>>, NoPrefix,
                   NoTtl, None, FALSE, 0, FALSE, "")
                  EXCEPT !.args = args, !.kwargs = kwargs]
    /\ nops' = nops + 1
    /\ UNCHANGED <<cache, access_order, stats, now>>
    /\ WrapperIdle
    /\ UNCHANGED lifecycle

KeyCall ==
    /\ nops < MaxKeyOps
    /\ \E args \in KeyArgs, kwargs \in KeyKwargs : CacheKeyFromArgs(args, kwargs)

NextKey == KeyCall

SpecKey == Init /\ [][NextKey]_vars

----------------------------------------------------------------------------
(* Entries of a store whose access method is called directly, as the tests do *)

MaxEntryOps == 3

\* entry.access() on the entry stored under key
EntryAccess(key) ==
    /\ key \in DOMAIN cache
    /\ LET r == access(cache[key], now)
       IN /\ cache' = DictPut(cache, key, r.entry)
          /\ ret' = Ret("access", key, NoPrefix, NoTtl, r.value, FALSE, 0, r.raised, "")
    /\ nops' = nops + 1
    /\ UNCHANGED <<access_order, stats, now>>
    /\ WrapperIdle
    /\ UNCHANGED lifecycle

EntrySet ==
    /\ nops < MaxEntryOps
    /\ \E key \in BaseKeys, value \in StoreValues : Set(key, value, 1, NoPrefix)
EntryAccessAny ==
    /\ nops < MaxEntryOps
    /\ \E key \in BaseKeys : EntryAccess(key)

NextEntry ==
    \/ Tick
    \/ EntrySet
    \/ EntryAccessAny

SpecEntry == Init /\ [][NextEntry]_vars

----------------------------------------------------------------------------
(* The store used by callers while its reaper runs *)

MaxAccountOps == 4

AccountKeys == {<<<<"a">>, NoPrefix>>, <<<<"b">>, NoPrefix>>, <<<<"a">>, <<"p">>>>}

AccountBudget == nops < MaxAccountOps

AccountSet ==
    /\ AccountBudget
    /\ \E k \in AccountKeys : Set(k[1], Str("v"), 1, k[2])
AccountGet ==
    /\ AccountBudget
    /\ \E k \in AccountKeys, d \in {0, 1} : Get(k[1], k[2], d)
AccountExists ==
    /\ AccountBudget
    /\ \E k \in AccountKeys : Exists(k[1], k[2])
AccountDelete ==
    /\ AccountBudget
    /\ \E k \in AccountKeys : Delete(k[1], k[2])
AccountClear ==
    /\ AccountBudget
    /\ \E prefix \in Prefixes : Clear(prefix, prefix # NoPrefix)
AccountCleanup ==
    /\ AccountBudget
    /\ CleanupExpired
AccountStart ==
    /\ AccountBudget
    /\ StartCleanupTask(1)
AccountReaper == \E r \in 1..Len(rtasks) : ReaperStep(r, "ok")

NextAccount ==
    \/ Tick
    \/ AccountSet
    \/ AccountGet
    \/ AccountExists
    \/ AccountDelete
    \/ AccountClear
    \/ AccountCleanup
    \/ AccountStart
    \/ AccountReaper

SpecAccount == Init /\ [][NextAccount]_vars

----------------------------------------------------------------------------
(* The cache manager next to the life cycle of the global store *)

MaxFacadeOps == 4

FacadeBudget == nops + Cardinality({t \in Tasks : pc[t] # "idle"}) < MaxFacadeOps

FacadeManager ==
    /\ FacadeBudget
    /\ \E t \in Tasks : ManagerBegin(t)
FacadeGetCache ==
    /\ FacadeBudget
    /\ \E t \in Tasks : GetCacheBegin(t, "get_cache")
FacadeInitialize ==
    /\ FacadeBudget /\ ~LifecycleCallOpen
    /\ \E t \in Tasks : GetCacheBegin(t, "initialize")
FacadeShutdown ==
    /\ FacadeBudget /\ ~LifecycleCallOpen
    /\ \E t \in Tasks : ShutdownBegin(t)
FacadeAcquire == \E t \in Tasks : GetCacheAcquire(t)
FacadeCheck == \E t \in Tasks : GetCacheCheck(t)
FacadeCreate == \E t \in Tasks : GetCacheCreate(t)
FacadeGotCache == \E t \in Tasks : GetCacheReturn(t)
FacadeInitialized == \E t \in Tasks : InitializeReturn(t)
FacadeShutDown == \E t \in Tasks : ShutdownEnd(t)
FacadeManagerCreated == \E t \in Tasks : ManagerInit(t)
FacadeManagerReturned == \E t \in Tasks : ManagerReturn(t)
FacadeReaper ==
    /\ ~LoopBusy
    /\ \E r \in 1..Len(rtasks) : ReaperStep(r, "ok")

NextFacade ==
    \/ FacadeManager
    \/ FacadeGetCache
    \/ FacadeInitialize
    \/ FacadeShutdown
    \/ FacadeAcquire
    \/ FacadeCheck
    \/ FacadeCreate
    \/ FacadeGotCache
    \/ FacadeInitialized
    \/ FacadeShutDown
    \/ FacadeManagerCreated
    \/ FacadeManagerReturned
    \/ FacadeReaper

SpecFacade == InitImport /\ [][NextFacade]_vars

----------------------------------------------------------------------------
(* A store constructed with max_size=None *)

MaxUnlimitedOps == 3

\* set on a store whose _max_size is what __init__ made of max_size=None
UnlimitedSet(key, value, ttl, prefix) ==
    /\ LET r == cache_set_in(Store, key, value, ttl, prefix, now, init_max_size(NoMaxSize))
       IN /\ SetStore(r.store)
          /\ ret' = Ret("set", key, prefix, ttl, value, FALSE, 0, r.raised, "")
    /\ nops' = nops + 1
    /\ UNCHANGED now
    /\ WrapperIdle
    /\ UNCHANGED lifecycle

UnlimitedSetAny ==
    /\ nops < MaxUnlimitedOps
    /\ \E key \in TokenKeys : UnlimitedSet(key, Str("v"), NoTtl, NoPrefix)
UnlimitedGetAny ==
    /\ nops < MaxUnlimitedOps
    /\ \E key \in TokenKeys : Get(key, NoPrefix, 0)

NextUnlimited ==
    \/ Tick
    \/ UnlimitedSetAny
    \/ UnlimitedGetAny

SpecUnlimited == Init /\ [][NextUnlimited]_vars

----------------------------------------------------------------------------
(* CruxAPIClient._make_request (api/client.py) and the exception utilities it uses *)
(* (api/exceptions.py)                                                              *)

\* max_retries=None, the default of CruxAPIClient.__init__
NoMaxRetries == -1
\* settings.crux_api.max_retries, the default of CruxAPIConfig
SettingsMaxRetries == 3

\* self.max_retries = max_retries or settings.crux_api.max_retries: None and 0 are falsy
init_max_retries(max_retries) ==
    IF max_retries = NoMaxRetries \/ max_retries = 0
    THEN SettingsMaxRetries
    ELSE max_retries

CruxError(cls, status_code) == [cls |-> cls, status_code |-> status_code]
NoException == CruxError("", 0)

map_http_status_to_exception(status_code) ==
    IF status_code = 401 THEN CruxError("CruxAuthenticationError", 401)
    ELSE IF status_code = 404 THEN CruxError("CruxNotFoundError", 404)
    ELSE IF status_code = 429 THEN CruxError("CruxRateLimitError", 429)
    ELSE IF 500 <= status_code /\ status_code < 600 THEN CruxError("CruxServerError", status_code)
    ELSE CruxError("CruxHTTPError", status_code)

\* error_message is the set of the words of str(error), lower-cased
handle_request_exception(error_message) ==
    IF "timeout" \in error_message THEN CruxError("CruxTimeoutError", 0)
    ELSE IF error_message \cap {"connection", "network", "resolve"} # {}
    THEN CruxError("CruxConnectionError", 0)
    ELSE CruxError("CruxAPIError", 0)

is_retryable_error(error) ==
    IF error.cls = "CruxRateLimitError" THEN TRUE
    ELSE IF error.cls = "CruxServerError" THEN error.status_code \in {502, 503, 504}
    ELSE IF error.cls = "CruxTimeoutError" THEN TRUE
    ELSE IF error.cls = "CruxConnectionError" THEN TRUE
    ELSE FALSE

\* what the upstream does with one HTTP attempt: a response (its status, and whether
\* its body parses as JSON) or an httpx.RequestError (the words of its message)
Response(status_code, json_ok) ==
    [kind |-> "response", status_code |-> status_code, json_ok |-> json_ok, message |-> {}]
RequestError(message) ==
    [kind |-> "error", status_code |-> 0, json_ok |-> FALSE, message |-> message]

\* one pass of the body of `for attempt in range(self.max_retries + 1)` on the outcome of
\* self.client.request: what the pass does (return, raise, or sleep and continue) and
\* the exception it holds
attempt_body(max_retries, attempt, last_exception, outcome) ==
    IF outcome.kind = "response"
    THEN IF outcome.status_code >= 400
         THEN IF ~outcome.json_ok
              \* the second response.json(), outside the inner try, raises
              THEN [do |-> "raise", exception |-> CruxError("JSONDecodeError", 0),
                    last_exception |-> last_exception]
              ELSE LET exception == map_http_status_to_exception(outcome.status_code)
                   IN IF attempt < max_retries /\ is_retryable_error(exception)
                      THEN [do |-> "continue", exception |-> exception,
                            last_exception |-> last_exception]
                      ELSE [do |-> "raise", exception |-> exception,
                            last_exception |-> last_exception]
         ELSE [do |-> "return", exception |-> NoException, last_exception |-> last_exception]
    ELSE LET exception == handle_request_exception(outcome.message)
         IN IF attempt < max_retries /\ is_retryable_error(exception)
            THEN [do |-> "continue", exception |-> exception, last_exception |-> exception]
            ELSE [do |-> "raise", exception |-> exception, last_exception |-> exception]

\* the code after the loop: reached when range(self.max_retries + 1) is exhausted
after_loop(last_exception) ==
    IF last_exception # NoException THEN last_exception ELSE CruxError("CruxAPIError", 0)

\* the frame of a _make_request call of a client constructed with max_retries = m
NewRequest(m) ==
    [func |-> "_make_request", args |-> <<m>>, kwargs |-> <<>>,
     max_retries |-> init_max_retries(m), attempt |-> 0, requests |-> 0,
     last_exception |-> NoException, exception |-> NoException]

\* a _make_request call has ended: what it was constructed with, the number of HTTP
\* requests it made, and what it returned or raised
RequestRet(call, raised, exception, status_code) ==
    [Ret("_make_request", <<>>, NoPrefix, NoTtl, None, FALSE, call.requests, raised,
         exception.cls)
     EXCEPT !.func = "_make_request", !.args = call.args, !.keys = {status_code}]

MaxRequestOps == 2
ConstructedRetries == {NoMaxRetries, 0, 1, 2}
UpstreamOutcomes ==
    {Response(s, j) : s \in {200, 400, 404, 429, 500, 503}, j \in {TRUE}}
    \cup {Response(503, FALSE)}
    \cup {RequestError(w) : w \in {{"timeout"}, {"connection"}, {"protocol"}}}

\* the loop head: the next pass when attempt is in range(max_retries + 1), the code
\* after the loop otherwise
LoopHead(t, call) ==
    IF call.attempt < call.max_retries + 1
    THEN /\ pc' = [pc EXCEPT ![t] = "attempt"]
         /\ pending' = [pending EXCEPT ![t] = call]
         /\ UNCHANGED <<ret, nops>>
    ELSE /\ pc' = [pc EXCEPT ![t] = "idle"]
         /\ pending' = [pending EXCEPT ![t] = NoCall]
         /\ ret' = RequestRet(call, TRUE, after_loop(call.last_exception), 0)
         /\ nops' = nops + 1

\* a client is constructed with max_retries = m and _make_request is called on it;
\* the call suspends in rate_limiter.acquire()
MakeRequestBegin(t, m) ==
    /\ pc[t] = "idle"
    /\ nops + Cardinality({u \in Tasks : pc[u] # "idle"}) < MaxRequestOps
    /\ pc' = [pc EXCEPT ![t] = "acquire"]
    /\ pending' = [pending EXCEPT ![t] = NewRequest(m)]
    /\ UNCHANGED <<cache, access_order, stats, now, ret, nops, calls>>
    /\ UNCHANGED lifecycle

\* rate_limiter.acquire() returns; last_exception = None and the loop is entered
MakeRequestAcquired(t) ==
    /\ pc[t] = "acquire"
    /\ LoopHead(t, pending[t])
    /\ UNCHANGED <<cache, access_order, stats, now, calls>>
    /\ UNCHANGED lifecycle

\* self.client.request ends with outcome and the pass of the loop runs up to its
\* return, its raise or its asyncio.sleep
MakeRequestAttempt(t, outcome) ==
    /\ pc[t] = "attempt"
    /\ LET call == [pending[t] EXCEPT !.requests = @ + 1]
           r == attempt_body(call.max_retries, call.attempt, call.last_exception, outcome)
       IN IF r.do = "continue"
          THEN /\ pc' = [pc EXCEPT ![t] = "sleep"]
               /\ pending' = [pending EXCEPT ![t] =
                                 [call EXCEPT !.last_exception = r.last_exception,
                                              !.exception = r.exception]]
               /\ UNCHANGED <<ret, nops>>
          ELSE /\ pc' = [pc EXCEPT ![t] = "idle"]
               /\ pending' = [pending EXCEPT ![t] = NoCall]
               /\ ret' = RequestRet(call, r.do = "raise", r.exception, outcome.status_code)
               /\ nops' = nops + 1
    /\ UNCHANGED <<cache, access_order, stats, now, calls>>
    /\ UNCHANGED lifecycle

\* asyncio.sleep(delay) returns and `continue` takes the loop to its next attempt
MakeRequestWake(t) ==
    /\ pc[t] = "sleep"
    /\ LoopHead(t, [pending[t] EXCEPT !.attempt = @ + 1])
    /\ UNCHANGED <<cache, access_order, stats, now, calls>>
    /\ UNCHANGED lifecycle

RequestBegin == \E t \in Tasks, m \in ConstructedRetries : MakeRequestBegin(t, m)
RequestAcquired == \E t \in Tasks : MakeRequestAcquired(t)
RequestAttempt == \E t \in Tasks, outcome \in UpstreamOutcomes : MakeRequestAttempt(t, outcome)
RequestWake == \E t \in Tasks : MakeRequestWake(t)
RequestRuns == RequestAcquired \/ RequestAttempt \/ RequestWake

NextRequest ==
    \/ RequestBegin
    \/ RequestAcquired
    \/ RequestAttempt
    \/ RequestWake

SpecRequest == Init /\ [][NextRequest]_vars

\* the event loop runs every call that can run, and the upstream answers every request
SpecRequestLive == SpecRequest /\ WF_vars(RequestRuns)

----------------------------------------------------------------------------
(* Properties of the store *)

\* the composite key "prefix:base_key" (the base key alone without a prefix) of the last call
FullKeyOf(r) == IF r.prefix = <<>> THEN r.key ELSE r.prefix \o <<":">> \o r.key

\* this step is a completed call of op
IsCall(op) == nops' = nops + 1 /\ ret'.op = op

\* C1: get returns the value written by the most recent set of the same full key, as
\* long as the entry is stored and has not expired, and None otherwise: a set stores its
\* value under its full key, no other call changes a stored value, and a get returns
\* the stored value of exactly the key it was asked for.
C1_GetReturnsLatestSet ==
    [][LET k == FullKeyOf(ret')
       IN /\ IsCall("set") => k \in DOMAIN cache' /\ cache'[k].value = ret'.val
          /\ \A j \in DOMAIN cache' :
                 \/ IsCall("set") /\ j = k
                 \/ j \in DOMAIN cache /\ cache'[j].value = cache[j].value
          /\ IsCall("get") =>
                 IF k \in DOMAIN cache /\ now' <= cache[k].expires_at
                 THEN ret'.val = cache[k].value
                 ELSE ret'.val = None]_vars

\* a hit under a prefix on an entry written after time 0
C1_Witness ==
    /\ ret.op = "get" /\ ret.branch = "hit" /\ ret.prefix # NoPrefix
    /\ ret.val = Str("ww")
    /\ cache[FullKeyOf(ret)].created_at > 0

\* C2: an entry set at time T with TTL t > 0 has the deadline T + t, which no later call
\* moves; a get or exists of a stored entry finds it at every time up to the deadline
\* and finds it absent (None, False, entry gone) at every time after it.
C2_TtlCorrectness ==
    [][LET k == FullKeyOf(ret')
       IN /\ IsCall("set") /\ ret'.ttl > 0 =>
                 cache'[k].created_at = now /\ cache'[k].expires_at = now + ret'.ttl
          /\ \A j \in DOMAIN cache' :
                 ~(IsCall("set") /\ j = k) => cache'[j].expires_at = cache[j].expires_at
          /\ IsCall("get") /\ k \in DOMAIN cache =>
                 IF now' <= cache[k].expires_at
                 THEN ret'.val = cache[k].value /\ k \in DOMAIN cache'
                 ELSE ret'.val = None /\ k \notin DOMAIN cache'
          /\ IsCall("exists") /\ k \in DOMAIN cache =>
                 IF now' <= cache[k].expires_at
                 THEN ret'.flag /\ k \in DOMAIN cache'
                 ELSE ~ret'.flag /\ k \notin DOMAIN cache']_vars

\* a get that returned the value exactly at the deadline of an entry set with TTL 1
C2_Witness ==
    /\ ret.op = "get" /\ ret.branch = "hit"
    /\ now = cache[FullKeyOf(ret)].expires_at
    /\ cache[FullKeyOf(ret)].expires_at = cache[FullKeyOf(ret)].created_at + 1

\* C3: the store never holds more than max_size entries, and set never raises.
C3_CapacityBound ==
    /\ Cardinality(DOMAIN cache) <= MaxSize
    /\ stats.entries <= MaxSize
    /\ ret.op = "set" => ~ret.raised

\* a set into a full store that made room by evicting
C3_Witness ==
    /\ ret.op = "set" /\ stats.evictions >= 1
    /\ Cardinality(DOMAIN cache) = MaxSize
    /\ FullKeyOf(ret) \in DOMAIN cache

\* C9: a get of a stored but expired key removes the entry, adds 1 to misses and 1 to
\* expirations, takes the entry's size off the running size and returns None; a get of
\* a key that is not stored is a plain miss: misses + 1, expirations and store unchanged.
C9_ExpiredGet ==
    [][LET k == FullKeyOf(ret')
       IN /\ IsCall("get") /\ k \in DOMAIN cache /\ now > cache[k].expires_at =>
                 /\ DOMAIN cache' = DOMAIN cache \ {k}
                 /\ OrderKeys(access_order') = OrderKeys(access_order) \ {k}
                 /\ stats'.misses = stats.misses + 1
                 /\ stats'.expirations = stats.expirations + 1
                 /\ stats'.hits = stats.hits
                 /\ stats'.total_size_bytes = stats.total_size_bytes - cache[k].size_bytes
                 /\ ret'.val = None
          /\ IsCall("get") /\ k \notin DOMAIN cache =>
                 /\ cache' = cache
                 /\ stats' = [stats EXCEPT !.misses = @ + 1]
                 /\ ret'.val = None]_vars

\* an expired get followed by a plain miss: one expiration, two misses
C9_Witness ==
    /\ ret.op = "get" /\ ret.branch = "miss"
    /\ stats.expirations = 1 /\ stats.misses = 2 /\ nops = 3
    /\ cache = EmptyDict

\* C10: get never raises; when the entry passes its deadline between the is_expired()
\* check and entry.access(), the outcome is that of the expired-on-lookup case.
C10_ExpiryRaceAbsorbed ==
    [][LET k == FullKeyOf(ret')
       IN /\ IsCall("get") => ~ret'.raised
          /\ IsCall("get") /\ k \in DOMAIN cache
               /\ now <= cache[k].expires_at /\ now' > cache[k].expires_at =>
                 /\ DOMAIN cache' = DOMAIN cache \ {k}
                 /\ stats'.misses = stats.misses + 1
                 /\ stats'.expirations = stats.expirations + 1
                 /\ stats'.hits = stats.hits
                 /\ stats'.entries = Cardinality(DOMAIN cache')
                 /\ stats'.total_size_bytes = stats.total_size_bytes - cache[k].size_bytes
                 /\ ret'.val = None]_vars

\* a get whose entry expired between the check and the access
C10_Witness ==
    /\ ret.op = "get" /\ ret.branch = "expired_on_access"
    /\ FullKeyOf(ret) \notin DOMAIN cache

\* the time an entry was last touched: its set, or its most recent successful get
LastTouch(entry) ==
    IF entry.last_accessed = NoTime THEN entry.created_at ELSE entry.last_accessed

\* C4: a set of a new key into a full store removes exactly one entry, one whose last
\* touch (set or successful get, not exists) is the oldest of all stored entries, adds
\* exactly 1 to evictions, and leaves every other entry stored and unchanged.
C4_LruEvictionOrder ==
    [][LET k == FullKeyOf(ret')
       IN IsCall("set") /\ k \notin DOMAIN cache /\ Cardinality(DOMAIN cache) = MaxSize =>
              \E victim \in DOMAIN cache :
                  /\ DOMAIN cache' = (DOMAIN cache \ {victim}) \cup {k}
                  /\ \A j \in DOMAIN cache :
                         LastTouch(cache[victim]) <= LastTouch(cache[j])
                  /\ \A j \in DOMAIN cache \ {victim} : cache'[j] = cache[j]
                  /\ stats'.evictions = stats.evictions + 1]_vars

\* after an eviction, the entry inserted first is still stored because a get touched it
C4_Witness ==
    /\ ret.op = "set" /\ stats.evictions = 1
    /\ Len(access_order) = MaxSize
    /\ cache[access_order[1].key].access_count >= 1
    /\ cache[access_order[1].key].created_at < cache[access_order[1].key].last_accessed

\* C11: every get adds exactly 1 to exactly one of hits and misses, to hits exactly
\* when it returns the stored value of an entry that is present and unexpired; no other
\* store operation (set, delete, exists, clear, cleanup_expired, get_keys, get_stats)
\* changes either counter, so hits + misses counts the gets made; the hit rate that
\* get_stats reports is hits / (hits + misses) * 100, and 0 while hits + misses is 0.
C11_HitMissAccounting ==
    [][LET k == FullKeyOf(ret')
           found == k \in DOMAIN cache /\ now' <= cache[k].expires_at
       IN /\ IsCall("get") =>
                 /\ found => /\ stats'.hits = stats.hits + 1
                             /\ stats'.misses = stats.misses
                             /\ ret'.val = cache[k].value
                 /\ ~found => /\ stats'.misses = stats.misses + 1
                              /\ stats'.hits = stats.hits
                              /\ ret'.val = None
          /\ nops' = nops + 1 /\ ret'.op \in {"set", "delete", "exists", "clear",
                                              "cleanup_expired", "get_keys", "get_stats"} =>
                 stats'.hits = stats.hits /\ stats'.misses = stats.misses
          /\ IsCall("get_stats") =>
                 IF stats.hits + stats.misses = 0
                 THEN ret'.hit_rate = ZeroFloat
                 ELSE /\ ret'.hit_rate.den > 0
                      /\ ret'.hit_rate.num * (stats.hits + stats.misses)
                             = stats.hits * 100 * ret'.hit_rate.den]_vars

\* get_stats after a set and one get, a hit, reports a hit rate of 100
C11_Witness ==
    /\ ret.op = "get_stats" /\ nops = 3
    /\ stats.hits = 1 /\ stats.misses = 0
    /\ ret.hit_rate.num = 100 * ret.hit_rate.den

\* C12: two sets of one base key under different prefixes (or one of them without a
\* prefix) store two entries, the first untouched by the second when there is room for
\* both; clear(prefix=p), directly or through clear_by_type, returns the number of keys
\* it removed, removes no key that does not begin with "p:", and leaves an entry that
\* was just set under another prefix, or without one, stored and unchanged.
C12_PrefixIsolation ==
    [][LET k0 == FullKeyOf(ret)
           k == FullKeyOf(ret')
       IN /\ IsCall("set") /\ ret.op = "set" /\ ret.key = ret'.key
               /\ ret.prefix # ret'.prefix /\ Cardinality(DOMAIN cache) < MaxSize =>
                 /\ k # k0
                 /\ {k0, k} \subseteq DOMAIN cache'
                 /\ cache'[k0] = cache[k0]
          /\ IsCall("clear") /\ ret'.flag =>
                 /\ ret'.count = Cardinality(DOMAIN cache \ DOMAIN cache')
                 /\ \A j \in DOMAIN cache' : cache'[j] = cache[j]
                 /\ \A j \in DOMAIN cache \ DOMAIN cache' :
                        StartsWith(j, ret'.prefix \o <<":">>)
                 /\ \A j \in DOMAIN cache' : ~StartsWith(j, ret'.prefix \o <<":">>)
          /\ IsCall("clear") /\ ret'.flag /\ ret.op = "set" /\ ret.prefix # ret'.prefix =>
                 k0 \in DOMAIN cache' /\ cache'[k0] = cache[k0]]_vars

\* the counters that only get, eviction and expiry may move
Counters(st) == <<st.hits, st.misses, st.evictions, st.expirations>>

\* C13: clear() without a prefix removes every entry, returns the number of entries that
\* were stored (0 for an empty store), sets entries and total_size_bytes to 0 and leaves
\* hits, misses, evictions and expirations as they were.
C13_ClearAll ==
    [][IsCall("clear") /\ ~ret'.flag =>
           /\ cache' = EmptyDict /\ access_order' = <<>>
           /\ ret'.count = Cardinality(DOMAIN cache)
           /\ stats'.entries = 0 /\ stats'.total_size_bytes = 0
           /\ Counters(stats') = Counters(stats)]_vars

\* a clear() that removed the one entry stored; the miss counted before it is still there
C13_Witness ==
    /\ ret.op = "clear" /\ ~ret.flag /\ ret.count = 1
    /\ stats.misses = 1 /\ stats.entries = 0 /\ nops = 3

\* C14: delete returns True exactly when an entry is stored under the full key, expired
\* or not, and then removes that entry alone and takes its size off the running size;
\* otherwise it returns False and changes nothing; after a delete the key is absent, so
\* a second delete of it returns False; delete never moves hits, misses, evictions or
\* expirations.
C14_Delete ==
    [][LET k == FullKeyOf(ret')
       IN /\ IsCall("delete") =>
                 /\ ret'.flag <=> k \in DOMAIN cache
                 /\ k \notin DOMAIN cache'
                 /\ Counters(stats') = Counters(stats)
                 /\ IF k \in DOMAIN cache
                    THEN /\ DOMAIN cache' = DOMAIN cache \ {k}
                         /\ \A j \in DOMAIN cache' : cache'[j] = cache[j]
                         /\ access_order' = OrderPop(access_order, {k})
                         /\ stats'.total_size_bytes
                                = stats.total_size_bytes - cache[k].size_bytes
                         /\ stats'.entries = stats.entries - 1
                    ELSE cache' = cache /\ access_order' = access_order /\ stats' = stats
          /\ IsCall("delete") /\ ret.op = "delete" /\ FullKeyOf(ret) = k => ~ret'.flag]_vars

\* a delete, at the latest time, that removed the only entry: the running size is back
\* at 0 and nothing was counted as expired
C14_Witness ==
    /\ ret.op = "delete" /\ ret.flag /\ nops = 2 /\ now = MaxTime
    /\ cache = EmptyDict /\ access_order = <<>>
    /\ stats.total_size_bytes = 0 /\ stats.expirations = 0

\* C15: exists returns True exactly when a get at that moment would return the entry
\* (stored and unexpired); it never moves hits, misses or evictions; it leaves every
\* remaining entry and the LRU order of the remaining keys untouched; finding an expired
\* entry, it removes it and adds 1 to expirations, and changes nothing otherwise.
C15_Exists ==
    [][LET k == FullKeyOf(ret')
           live == k \in DOMAIN cache /\ now' <= cache[k].expires_at
       IN IsCall("exists") =>
              /\ ret'.flag <=> live
              /\ ret'.flag <=> cache_get(Store, ret'.key, ret'.prefix, now, now).branch = "hit"
              /\ stats'.hits = stats.hits /\ stats'.misses = stats.misses
              /\ stats'.evictions = stats.evictions
              /\ \A j \in DOMAIN cache' : j \in DOMAIN cache /\ cache'[j] = cache[j]
              /\ access_order' = OrderPop(access_order, DOMAIN cache \ DOMAIN cache')
              /\ IF k \in DOMAIN cache /\ ~live
                 THEN /\ DOMAIN cache' = DOMAIN cache \ {k}
                      /\ stats'.expirations = stats.expirations + 1
                      /\ stats'.entries = stats.entries - 1
                      /\ stats'.total_size_bytes
                             = stats.total_size_bytes - cache[k].size_bytes
                 ELSE cache' = cache /\ stats' = stats]_vars

\* exists found the oldest of two entries, later than both were set: it is still the
\* one that an eviction would remove
C15_Witness ==
    /\ ret.op = "exists" /\ ret.flag /\ nops = 3
    /\ Len(access_order) = MaxSize
    /\ lru_key(access_order) = FullKeyOf(ret)
    /\ \A i \in 1..Len(access_order) : access_order[i].ts < now

\* C16: cleanup_expired removes exactly the entries that are expired at the time of the
\* sweep, leaves the others as they are, returns the number removed and adds that number
\* to expirations; hits, misses and evictions are unchanged.
C16_CleanupExpired ==
    [][IsCall("cleanup_expired") =>
           LET gone == {j \in DOMAIN cache : now > cache[j].expires_at}
           IN /\ DOMAIN cache' = DOMAIN cache \ gone
              /\ \A j \in DOMAIN cache' : cache'[j] = cache[j]
              /\ access_order' = OrderPop(access_order, gone)
              /\ ret'.count = Cardinality(gone)
              /\ stats'.expirations = stats.expirations + Cardinality(gone)
              /\ stats'.hits = stats.hits /\ stats'.misses = stats.misses
              /\ stats'.evictions = stats.evictions
              /\ stats'.entries = Cardinality(DOMAIN cache')]_vars

\* a sweep that removed one expired entry and kept one that is exactly at its deadline
C16_Witness ==
    /\ ret.op = "cleanup_expired" /\ ret.count = 1 /\ stats.expirations = 1
    /\ \E j \in DOMAIN cache : cache[j].expires_at = now

\* C17: a set of a key that is already stored, the store full or not, evicts nothing:
\* the key set is the same, every other entry is unchanged, entries and evictions are
\* unchanged, and the key's entry has the new value, expires at now + ttl and carries
\* the time of this set as its LRU timestamp.
C17_OverwriteNoEviction ==
    [][LET k == FullKeyOf(ret')
       IN IsCall("set") /\ k \in DOMAIN cache =>
              /\ ~ret'.raised
              /\ DOMAIN cache' = DOMAIN cache
              /\ \A j \in DOMAIN cache \ {k} : cache'[j] = cache[j]
              /\ OrderKeys(access_order') = OrderKeys(access_order)
              /\ stats'.entries = stats.entries
              /\ stats'.evictions = stats.evictions
              /\ cache'[k].value = ret'.val
              /\ cache'[k].created_at = now
              /\ cache'[k].expires_at
                     = now + (IF ret'.ttl = NoTtl THEN DefaultTtlMetadata ELSE ret'.ttl)
              /\ OrderGet(access_order', k) = now]_vars

\* the third call overwrote, later, the first of the two keys of a full store
C17_Witness ==
    /\ ret.op = "set" /\ nops = 3 /\ stats.evictions = 0
    /\ Len(access_order) = MaxSize
    /\ access_order[1].key = FullKeyOf(ret)
    /\ access_order[1].ts > access_order[2].ts
    /\ cache[FullKeyOf(ret)].value = ret.val

----------------------------------------------------------------------------
(* Properties of the wrappers *)

\* this step starts a wrapper call: it returns at once, or suspends in the function
BeginsCall == IsCall("call") \/ IsCall("fetch")

PlainFuncs == {"add", "mul"}
ToolFuncs == {"get_asset_info", "get_token_info"}

\* C5: a call whose arguments already have a stored, unexpired entry, whatever value
\* the earlier call returned (None included), does not invoke the underlying operation
\* and returns the cached value; a call without such an entry invokes it once.
C5_DedupAnyResult ==
    [][LET k == FullKeyOf(ret')
           c == <<ret'.func, ret'.args>>
       IN BeginsCall =>
              IF k \in DOMAIN cache /\ now' <= cache[k].expires_at
              THEN calls' = calls /\ ret'.op = "call" /\ ret'.val = cache[k].value
              ELSE calls' = [calls EXCEPT ![c] = @ + 1]]_vars

\* C6: when the wrapped operation raises, the caller gets that same failure and the
\* call writes no entry: no key is added and no stored value, creation time or deadline
\* changes (an async call leaves the whole store as it was when the function returned);
\* stored for its arguments is then nothing, or a None an earlier call returned, and a
\* call that finds nothing or None for its arguments always invokes the operation.
C6_NoNegativeCaching ==
    [][LET k == FullKeyOf(ret')
           c == <<ret'.func, ret'.args>>
       IN /\ IsCall("call") /\ ret'.func \in PlainFuncs /\ ret'.outcome = "raise" =>
                 /\ ret'.raised /\ ret'.val = Exc
                 /\ k \in DOMAIN cache' => cache'[k].value = None
                 /\ \A j \in DOMAIN cache' :
                        /\ j \in DOMAIN cache
                        /\ cache'[j].value = cache[j].value
                        /\ cache'[j].created_at = cache[j].created_at
                        /\ cache'[j].expires_at = cache[j].expires_at
                 /\ stats'.total_size_bytes <= stats.total_size_bytes
          /\ IsCall("resume") /\ ret'.func \in PlainFuncs /\ ret'.outcome = "raise" =>
                 /\ ret'.raised /\ ret'.val = Exc
                 /\ cache' = cache /\ access_order' = access_order /\ stats' = stats
          /\ BeginsCall /\ (k \notin DOMAIN cache \/ cache[k].value = None) =>
                 calls' = [calls EXCEPT ![c] = @ + 1]]_vars

\* two calls of add("x"), both ran the function and both raised: nothing was stored
C6_Witness ==
    /\ ret.op = "call" /\ ret.func = "add" /\ ret.args = <<"x">>
    /\ ret.raised /\ ret.outcome = "raise"
    /\ calls[<<"add", <<"x">>>>] = 2 /\ nops = 2
    /\ cache = EmptyDict

\* C7: a call that returns a value returns one produced by its own operation, never one
\* cached by another operation called with the same arguments.
C7_NoAliasing ==
    ret.op \in {"call", "resume"} /\ ~ret.raised /\ ret.val.tag = "str" =>
        ret.val.text = ret.func

\* C8: no stored entry holds a failure result, and no tool call returns a failure
\* result from the cache instead of contacting the upstream API.
C8_NoFailureStored ==
    /\ \A k \in DOMAIN cache : cache[k].value.tag # "error"
    /\ ~(ret.op = "call" /\ ret.func \in ToolFuncs /\ ret.outcome = ""
           /\ ret.val.tag = "error")

\* C18: a call for which the skip predicate is true runs the underlying operation and
\* returns (or raises) what it gave, and leaves the store exactly as it was: entries, LRU
\* order and every counter, hits and misses included; an entry cached for the same
\* arguments stays as it is and is not what the call returns.
C18_SkipBypassesStore ==
    [][LET c == <<ret'.func, ret'.args>>
           result == run_body(ret'.func, ret'.outcome)
       IN /\ IsCall("skip_call") \/ IsCall("skip_fetch") \/ IsCall("skip_resume") =>
                 cache' = cache /\ access_order' = access_order /\ stats' = stats
          /\ IsCall("skip_call") \/ IsCall("skip_fetch") =>
                 calls' = [calls EXCEPT ![c] = @ + 1]
          /\ IsCall("skip_call") \/ IsCall("skip_resume") =>
                 ret'.val = result.val /\ ret'.raised = result.raised]_vars

\* add("x") is cached with a value; a later call with the predicate true ran the function
\* again, returned its None, and the cached entry is as it was
C18_Witness ==
    /\ ret.op = "skip_call" /\ ret.func = "add" /\ ret.args = <<"x">>
    /\ ret.val = None /\ ~ret.raised
    /\ calls[<<"add", <<"x">>>>] = 2
    /\ FullKeyOf(ret) \in DOMAIN cache
    /\ cache[FullKeyOf(ret)].value = Str("add")
    /\ stats.hits = 0 /\ stats.misses = 1

\* C20: an async call that finds no entry for its key invokes the function, whether or
\* not another call for the same key is suspended in its own fetch: concurrent misses
\* are not merged.  Every call that comes back with a result stores it under the key,
\* replacing what an earlier call stored: when all have completed the key has one entry,
\* holding the value of the call that completed last.
C20_NoSingleFlight ==
    [][LET k == FullKeyOf(ret')
           c == <<ret'.func, ret'.args>>
       IN /\ BeginsCall /\ is_async(ret'.func) /\ k \notin DOMAIN cache =>
                 ret'.op = "fetch" /\ calls' = [calls EXCEPT ![c] = @ + 1]
          /\ IsCall("resume") /\ ~ret'.raised =>
                 /\ k \in DOMAIN cache'
                 /\ cache'[k].value = ret'.val
                 /\ cache'[k].created_at = now
                 /\ cache'[k].access_count = 0
                 /\ Len(SelectSeq(access_order', LAMBDA o : o.key = k)) = 1
                 /\ stats'.entries = Cardinality(DOMAIN cache')]_vars

\* two calls of mul("x") both missed (no hit, two misses) and both ran the function; the
\* first to complete stored a value, the second then stored None: the one entry holds None
C20_Witness ==
    /\ ret.op = "resume" /\ ret.func = "mul" /\ ret.args = <<"x">> /\ ret.val = None
    /\ \A t \in Tasks : pc[t] = "idle"
    /\ calls[<<"mul", <<"x">>>>] = 2 /\ nops = 4
    /\ stats.hits = 0 /\ stats.misses = 2
    /\ DOMAIN cache = {FullKeyOf(ret)}
    /\ cache[FullKeyOf(ret)].value = None
    /\ stats.total_size_bytes = estimate_size(Str("mul")) + estimate_size(None)

----------------------------------------------------------------------------
(* Properties of the store under concurrent threads *)

\* the store is between two writes of one call
Torn == stats.entries # Cardinality(DOMAIN cache) \/ OrderKeys(access_order) # DOMAIN cache

\* C19: at most one thread is inside a store operation at a time, a thread inside one
\* finds the store as the previous operation left it, and whenever get_stats or get_keys
\* looks at the store the entries counter equals the number of keys stored (and the LRU
\* order holds exactly the stored keys): the states between the writes of a set, get,
\* delete, exists, clear, cleanup_expired or eviction are seen by no one.
C19_NoTornState ==
    [][/\ Cardinality({t \in Tasks : pc[t] \in LockedPcs}) <= 1
       /\ IsCall("get_stats") \/ IsCall("get_keys") => ~Torn
       /\ IsCall("get_keys") => Cardinality(ret'.keys) = stats'.entries
       /\ IsCall("get_stats") => ret'.count = Cardinality(DOMAIN cache)
       /\ \A t \in Tasks : pc[t] = "idle" /\ pc'[t] = "locked" => ~Torn]_vars

\* get_keys has returned the one stored key, and now a thread is inside a set of a second
\* key: the map holds two keys while the entries counter still says 1
C19_Witness ==
    /\ ret.op = "get_keys" /\ Cardinality(ret.keys) = 1
    /\ \E t \in Tasks : pc[t] = "wrote_cache" /\ pending[t].op = "set"
    /\ stats.entries = 1 /\ Cardinality(DOMAIN cache) = 2

----------------------------------------------------------------------------
(* Properties of the reaper *)

\* the reaper tasks of store s that are not done
Running(s) == {r \in 1..Len(rtasks) : rtasks[r].store = s /\ ~Done(rtasks[r])}

\* C22: whatever starts and stops were made, a store has at most one reaper task that is
\* not done, and a start made while that task is not done creates no task and leaves the
\* store's task and stop event as they are.
C22_StartIdempotent ==
    [][/\ \A s \in 1..Len(stores) : Cardinality(Running(s)) <= 1
       /\ \A s \in 1..Len(stores) :
              IsCall("start") /\ ret'.store = s /\ Running(s) # {} =>
                  /\ ~ret'.flag
                  /\ rtasks' = rtasks /\ stores' = stores
                  /\ Running(s) = {ret'.task}
       /\ \A s \in 1..Len(stores) :
              IsCall("start") /\ ret'.store = s /\ Running(s) = {} =>
                  ret'.flag /\ Running(s)' = {ret'.task}]_vars

\* start was called a second time while the one reaper task was asleep: still one task
C22_Witness ==
    /\ ret.op = "start" /\ ~ret.flag /\ nops = 2
    /\ Len(rtasks) = 1 /\ rtasks[1].pc = "sleeping"
    /\ stores[1].cleanup_task = 1

\* C23: stop_cleanup_task sets the stop event and cancels the task it then waits for, and
\* suspends only for a task that is not done; when it returns, without error, the task it
\* stopped is done; a task that is done never runs again, and while store 1 has no task
\* that is not done, no step other than a caller's operation changes the store.
C23_CleanStop ==
    [][/\ \A t \in Tasks :
              pc[t] = "idle" /\ pc'[t] = "stopping" =>
                  /\ pending'[t].task \in Running(pending'[t].store)
                  /\ rtasks'[pending'[t].task].cancel
                  /\ stores'[pending'[t].store].stop_cleanup
       /\ IsCall("stop") =>
              /\ ~ret'.raised
              /\ ret'.task # 0 => Done(rtasks'[ret'.task])
              /\ ret'.flag => \E t \in Tasks : pc[t] = "stopping" /\ pending[t].task = ret'.task
              /\ ~ret'.flag => rtasks' = rtasks /\ stores'[ret'.store].stop_cleanup
       /\ \A r \in 1..Len(rtasks) : Done(rtasks[r]) => rtasks'[r] = rtasks[r]
       /\ Running(1) = {} /\ nops' = nops =>
              cache' = cache /\ access_order' = access_order /\ stats' = stats]_vars

\* the reaper had swept and was asleep when stop cancelled it; stop waited and returned
C23_Witness ==
    /\ ret.op = "stop" /\ ret.flag /\ ret.task = 1
    /\ rtasks[1].pc = "cancelled" /\ rtasks[1].left >= 1
    /\ Running(1) = {}

\* the store has a reaper task that was started and has not been stopped
Active(s) == \E r \in Running(s) : ~rtasks[r].cancel /\ ~stores[s].stop_cleanup

\* the entry stored under key k is past its time to live
Expired(k) == k \in DOMAIN cache /\ cache[k].expires_at # NoTime /\ is_expired(cache[k], now)

\* C24: if an entry of the store is expired while the store's reaper is running, then
\* later the entry is gone (or replaced by a live one) or the reaper has been stopped,
\* whether or not any caller touches the key.
C24_ReaperRemovesExpired ==
    \A key \in BaseKeys :
        (Expired(generate_key(key, NoPrefix)) /\ Active(1))
            ~> (~Expired(generate_key(key, NoPrefix)) \/ ~Active(1))

\* the reaper, asleep after a failed and a successful sweep, counted an expiration that
\* no caller's operation produced: the only calls were the sets and the start
C24_Witness ==
    /\ stats.expirations = 1 /\ stats.entries = 1 /\ nops = 3
    /\ Active(1) /\ rtasks[1].pc = "sleeping" /\ rtasks[1].errors = 1
    /\ \A key \in BaseKeys : ~Expired(generate_key(key, NoPrefix))

\* C25: a sweep that raises leaves the task alive, in its backoff sleep, and the store
\* as it was; a task that wakes from the backoff with no stop requested sweeps again;
\* and a task ends only when it was cancelled or the stop event is set.
C25_SweepErrorAbsorbed ==
    [][\A r \in 1..Len(rtasks) :
           /\ rtasks'[r].errors # rtasks[r].errors =>
                  /\ rtasks'[r].pc = "backoff"
                  /\ cache' = cache /\ access_order' = access_order /\ stats' = stats
           /\ (/\ rtasks[r].pc = "backoff" /\ rtasks'[r].cancel = rtasks[r].cancel
               /\ rtasks'[r] # rtasks[r]
               /\ ~rtasks[r].cancel /\ ~stores[rtasks[r].store].stop_cleanup) =>
                  \/ rtasks'[r].pc = "sleeping" /\ rtasks'[r].left = CleanupInterval
                  \/ rtasks'[r].pc = "backoff" /\ rtasks'[r].errors = rtasks[r].errors + 1
           /\ ~Done(rtasks[r]) /\ Done(rtasks'[r]) =>
                  rtasks[r].cancel \/ stores[rtasks[r].store].stop_cleanup]_vars

\* after a failed sweep the task swept again, removed an expired entry and has since
\* slept through the first second of its interval
C25_Witness ==
    /\ Len(rtasks) = 1
    /\ rtasks[1].errors = 1 /\ rtasks[1].pc = "sleeping" /\ rtasks[1].left = CleanupInterval - 1
    /\ ~rtasks[1].cancel /\ stats.expirations = 1

----------------------------------------------------------------------------
(* Properties of the global store and the global cache manager *)

\* C26: with no shutdown_cache, whatever the interleaving of the threads inside
\* get_cache, a store is created only while there is no global store, it is the one and
\* only store and becomes the global one, the global store is never replaced, and every
\* get_cache call returns it.
C26_CreateOnce ==
    [][/\ stores' # stores =>
              /\ cache_instance = 0 /\ stores = <<>>
              /\ Len(stores') = 1 /\ cache_instance' = 1
       /\ cache_instance # 0 => cache_instance' = cache_instance
       /\ IsCall("get_cache") => ret'.store = 1 /\ cache_instance' = 1]_vars

\* both threads found no global store at their first test; one created it and has
\* returned, the other is about to return it too
C26_Witness ==
    /\ ret.op = "get_cache" /\ ret.store = 1 /\ nops = 1
    /\ \E t \in Tasks : pc[t] = "gc_return" /\ cache_instance = 1
    /\ Len(stores) = 1 /\ now = 0 /\ cache = EmptyDict

\* C27: initialize_cache and shutdown_cache being called one after the other in any
\* order, initialize_cache returns the global store, whose reaper task exists, is not
\* done and has no cancellation or stop pending; and when shutdown_cache returns there
\* is no global store and the store that was global has no reaper task that is not done.
C27_Lifecycle ==
    [][/\ IsCall("initialize") =>
              /\ ~ret'.raised
              /\ ret'.store # 0 /\ ret'.store = cache_instance'
              /\ ret'.task # 0 /\ stores'[ret'.store].cleanup_task = ret'.task
              /\ \A s \in 1..Len(stores') :
                     s = ret'.store => Running(s)' = {ret'.task} /\ Active(s)'
       /\ IsCall("shutdown") =>
              /\ ~ret'.raised
              /\ cache_instance' = 0
              /\ ret'.store = cache_instance
              /\ \A s \in 1..Len(stores') :
                     s = ret'.store => Running(s)' = {} /\ stores'[s].stop_cleanup]_vars

\* initialize, shutdown, initialize: the second initialize created a second store and
\* started its reaper, the reaper of the first store having been cancelled
C27_Witness ==
    /\ ret.op = "initialize" /\ ret.store = 2 /\ ret.task = 2 /\ nops = 3
    /\ cache_instance = 2 /\ rtasks[1].pc = "cancelled" /\ rtasks[2].pc = "sleeping"

\* C28: at most one CacheManager is ever created, and every get_cache_manager call
\* returns that one, whatever the interleaving of the calling threads.
C28_ManagerSingleton ==
    [][/\ Len(managers') <= 1
       /\ IsCall("get_cache_manager") => ret'.count = 1]_vars

----------------------------------------------------------------------------
(* Properties of the cache manager *)

\* the stored keys that invalidate_token_data(token_id) is to remove
Invalidated(k, token_id) ==
    \/ k = generate_key(token_id, PricePrefix)
    \/ k = generate_key(token_id, MetadataPrefix)
    \/ StartsWith(k, HistoryPrefix \o <<":">>) /\ Contains(k, token_id)

\* C29: invalidate_token_data(id) removes the price entry and the metadata entry of id
\* and every history entry whose stored key contains id, and leaves every other entry
\* present and unchanged.
C29_Invalidate ==
    [][IsCall("invalidate") =>
           /\ DOMAIN cache' = {k \in DOMAIN cache : ~Invalidated(k, ret'.key)}
           /\ \A k \in DOMAIN cache' : cache'[k] = cache[k]
           /\ OrderKeys(access_order') = DOMAIN cache'
           /\ stats'.entries = Cardinality(DOMAIN cache')]_vars

\* of two history entries, the one whose key contains the identifier was removed
C29_Witness ==
    /\ ret.op = "invalidate" /\ ret.key = <<"a">>
    /\ ret.keys = {generate_key(<<"a", "b">>, HistoryPrefix),
                   generate_key(<<"b">>, HistoryPrefix)}
    /\ DOMAIN cache = {generate_key(<<"b">>, HistoryPrefix)}

\* the named arguments of a call as a set: their order forgotten
KwSet(kwargs) == {kwargs[i] : i \in 1..Len(kwargs)}

\* C30: two calls of the default key derivation with the same positional arguments and
\* the same named arguments, in whatever order these were written, give the same key.
C30_KeyingStable ==
    [][(/\ IsCall("cache_key_from_args") /\ ret.op = "cache_key_from_args"
        /\ ret'.args = ret.args
        /\ KwSet(ret'.kwargs) = KwSet(ret.kwargs)) => ret'.key = ret.key]_vars

\* the second call named the same two arguments in the other order and got the key of
\* the first
C30_Witness ==
    /\ ret.op = "cache_key_from_args" /\ nops = 2
    /\ ret.args = <<"x">>
    /\ ret.kwargs = <<[name |-> "token_id", value |-> "1"],
                      [name |-> "time_point", value |-> "2"]>>
    /\ ret.key = <<cache_key_from_args(<<"x">>, <<[name |-> "time_point", value |-> "2"],
                                                  [name |-> "token_id", value |-> "1"]>>)>>

----------------------------------------------------------------------------
(* Properties of an entry *)

\* C31: access() on an entry past its deadline raises and leaves the entry as it was; on
\* any other entry it adds exactly 1 to access_count, sets last_accessed to the clock
\* reading, changes no other field and returns the value; and an entry that has never
\* been accessed successfully has no last_accessed.
C31_EntryAccess ==
    [][/\ \A k \in DOMAIN cache :
              cache[k].access_count = 0 <=> cache[k].last_accessed = NoTime
       /\ IsCall("access") =>
              LET entry == cache[ret'.key]
              IN IF now > entry.expires_at
                 THEN ret'.raised /\ cache' = cache
                 ELSE /\ ~ret'.raised /\ ret'.val = entry.value
                      /\ cache' = DictPut(cache, ret'.key,
                                          [entry EXCEPT !.access_count = @ + 1,
                                                        !.last_accessed = now])]_vars

\* an entry accessed once before its deadline was accessed again after it: the call
\* raised and the entry still counts one access
C31_Witness ==
    /\ ret.op = "access" /\ ret.raised /\ nops = 3
    /\ cache[ret.key].access_count = 1 /\ cache[ret.key].last_accessed = 0
    /\ now > cache[ret.key].expires_at

----------------------------------------------------------------------------
(* Properties of the store's accounting *)

RECURSIVE SumSizeBytes(_, _)
SumSizeBytes(c, ks) ==
    IF ks = {} THEN 0
    ELSE LET k == CHOOSE x \in ks : TRUE
         IN c[k].size_bytes + SumSizeBytes(c, ks \ {k})

\* C32: the total_size_bytes counter is the sum of size_bytes over the stored entries,
\* and so 0 when the store is empty.
C32_SizeAccounting ==
    stats.total_size_bytes = SumSizeBytes(cache, DOMAIN cache)

\* the keys a step removes from the store, and those it adds
Removed == DOMAIN cache \ DOMAIN cache'
Added == DOMAIN cache' \ DOMAIN cache

\* C33: step by step, which gives the equation between the counts by induction: a key
\* enters the store only by a set, one at a time; what a delete or a clear removes is
\* what it reports and is counted neither as eviction nor as expiration; every other
\* removal, by a caller or by the reaper, raises exactly one of evictions (in a set) and
\* expirations (anywhere else) by one; and stats.entries is the number of entries.
C33_RemovalsCountedOnce ==
    [][/\ Added # {} => IsCall("set") /\ Added = {FullKeyOf(ret')}
       /\ stats'.evictions >= stats.evictions /\ stats'.expirations >= stats.expirations
       /\ IF IsCall("delete")
          THEN /\ Cardinality(Removed) = (IF ret'.flag THEN 1 ELSE 0)
               /\ stats'.evictions = stats.evictions
               /\ stats'.expirations = stats.expirations
          ELSE IF IsCall("clear")
          THEN /\ Cardinality(Removed) = ret'.count
               /\ stats'.evictions = stats.evictions
               /\ stats'.expirations = stats.expirations
          ELSE /\ (stats'.evictions - stats.evictions)
                    + (stats'.expirations - stats.expirations) = Cardinality(Removed)
               /\ IsCall("set") => stats'.expirations = stats.expirations
               /\ ~IsCall("set") => stats'.evictions = stats.evictions
       /\ stats'.entries = Cardinality(DOMAIN cache')]_vars

\* with the store full, a third key was set and evicted one entry; the reaper then
\* removed an expired entry that no caller had touched
C33_Witness ==
    /\ stats.evictions = 1 /\ stats.expirations = 1 /\ stats.entries = 1
    /\ nops = 4 /\ stats.misses = 0
    /\ Len(rtasks) = 1 /\ rtasks[1].pc = "sleeping"

\* C34: the LRU structure holds each key once, and a key is in it exactly when it has an
\* entry; so the victim an eviction picks from it is in the map, and no set fails on it.
C34_OrderTracksEntries ==
    /\ OrderKeys(access_order) = DOMAIN cache
    /\ Len(access_order) = Cardinality(DOMAIN cache)
    /\ ret.op = "set" => ~ret.raised
    /\ access_order # <<>> => lru_key(access_order) \in DOMAIN cache

\* after a set on the full store had evicted the least recently used key, a get has
\* removed an expired entry: one key is left in both structures
C34_Witness ==
    /\ ret.op = "get" /\ stats.evictions = 1 /\ stats.expirations = 1 /\ stats.misses = 1
    /\ Cardinality(DOMAIN cache) = 1
    /\ OrderKeys(access_order) = DOMAIN cache

\* C35: a get that hits returns the entry's value, adds 1 to its access_count, sets its
\* last_accessed and its LRU timestamp to the clock reading and adds 1 to hits; the
\* entry's value, size_bytes, created_at and expires_at, every other entry, every other
\* LRU timestamp and every other counter stay as they were.
C35_GetFrame ==
    [][IsCall("get") /\ ret'.branch = "hit" =>
           LET k == FullKeyOf(ret')
           IN /\ ret'.val = cache[k].value
              /\ cache' = DictPut(cache, k, [cache[k] EXCEPT !.access_count = @ + 1,
                                                             !.last_accessed = now'])
              /\ access_order' = OrderPut(access_order, k, now')
              /\ \A j \in DOMAIN cache \ {k} :
                     OrderGet(access_order', j) = OrderGet(access_order, j)
              /\ stats' = [stats EXCEPT !.hits = @ + 1]]_vars

\* the same entry was read twice, the second time at its deadline: it counts two
\* accesses and its deadline is the one it was set with
C35_Witness ==
    /\ ret.op = "get" /\ ret.branch = "hit" /\ stats.hits = 2 /\ nops = 3
    /\ cache[FullKeyOf(ret)].access_count = 2
    /\ cache[FullKeyOf(ret)].last_accessed = 1
    /\ cache[FullKeyOf(ret)].created_at = 0 /\ cache[FullKeyOf(ret)].expires_at = 1

\* C36: get_keys changes nothing in the store and returns the stored full keys, those
\* that begin with "prefix:" when a prefix is given, expired ones included; get_stats
\* changes no entry, no LRU timestamp and none of hits, misses, evictions and
\* expirations, and counts every stored entry, expired ones included.
C36_ReadOnlySnapshots ==
    [][/\ IsCall("get_keys") =>
              /\ cache' = cache /\ access_order' = access_order /\ stats' = stats
              /\ ret'.keys = IF ret'.flag
                             THEN {k \in DOMAIN cache : StartsWith(k, ret'.prefix \o <<":">>)}
                             ELSE DOMAIN cache
       /\ IsCall("get_stats") =>
              /\ cache' = cache /\ access_order' = access_order
              /\ stats'.hits = stats.hits /\ stats'.misses = stats.misses
              /\ stats'.evictions = stats.evictions
              /\ stats'.expirations = stats.expirations
              /\ stats'.total_size_bytes = stats.total_size_bytes
              /\ ret'.count = Cardinality(DOMAIN cache)
              /\ stats'.entries = Cardinality(DOMAIN cache)]_vars

\* get_stats counted an entry that is past its deadline and still stored
C36_Witness ==
    /\ ret.op = "get_stats" /\ ret.count = 1 /\ stats.expirations = 0
    /\ \E k \in DOMAIN cache : now > cache[k].expires_at

\* C37: whenever there is a global cache manager and a global store, the store the
\* manager uses is the global store, the one get_cache returns and the decorators use.
C37_ManagerUsesGlobalStore ==
    cache_manager # 0 /\ cache_instance # 0 =>
        managers[cache_manager].cache = cache_instance

\* C38: on a store constructed with max_size=None no set evicts: it removes no key and
\* leaves the eviction counter as it was.
C38_UnlimitedNeverEvicts ==
    [][IsCall("set") =>
           /\ DOMAIN cache \subseteq DOMAIN cache'
           /\ stats'.evictions = stats.evictions]_vars

\* a _make_request call in flight, and the frame of it
InFlight(t) == pc[t] \in {"acquire", "attempt", "sleep"}

\* every _make_request call ends, whatever the upstream answers
RequestTerminates == \A t \in Tasks : InFlight(t) ~> ~InFlight(t)

\* the loop sleeps and goes on only after a retryable error, and within the retries the
\* client holds in self.max_retries
RetriesOnlyRetryable ==
    [][\A t \in Tasks :
           pc[t] = "attempt" /\ pc'[t] = "sleep" =>
               /\ is_retryable_error(pending'[t].exception)
               /\ pending'[t].requests <= pending'[t].max_retries]_vars

\* a call returns a response exactly when its last attempt got a status below 400, and
\* what it raises otherwise is the error of its last attempt
ReturnsFirstGoodResponse ==
    [][IsCall("_make_request") =>
           /\ ret'.count >= 1
           /\ ~ret'.raised <=> \A c \in ret'.keys : c > 0 /\ c < 400]_vars

\* C39: a client constructed with max_retries = m, m >= 0, performs at most m + 1 HTTP
\* attempts in one _make_request call, while the call is in flight and when it has ended.
C39_AtMostMPlusOneAttempts ==
    /\ \A t \in Tasks :
           InFlight(t) /\ pending[t].args[1] >= 0 =>
               pending[t].requests <= pending[t].args[1] + 1
    /\ ret.op = "_make_request" /\ ret.args[1] >= 0 => ret.count <= ret.args[1] + 1

============================================================================
